---- MODULE Spec2Model ----
(***************************************************************************)
(* Deployment and integrity-tracking engine of DXVK Studio                 *)
(* (electron/services/deployer.ts, electron/services/engine-manager.ts).   *)
(*                                                                         *)
(* One game directory is modelled: its files (name -> bytes), the manifest *)
(* sidecar file (absent / unparseable / parsed record) and the engine      *)
(* cache the payload is copied from.  installEngine, uninstallEngine and   *)
(* checkIntegrity are operators over a directory value, translated         *)
(* statement by statement; the actions apply them atomically (every call   *)
(* is synchronous and runs to completion).  A call of installEngine may be *)
(* cut short by a filesystem error at a rename, a copy or the manifest     *)
(* write.  The environment may delete or overwrite an installed file.      *)
(* The timestamp installedAt is not modelled (no property reads it).       *)
(*                                                                         *)
(* Specifications:                                                         *)
(*   Spec         install, uninstall and outside changes on one directory  *)
(*   ManifestSpec install (no filesystem error), uninstall, writeConfig    *)
(*                and a manifest file damaged from outside, on one         *)
(*                directory                                                *)
(*   StepSpec     installEngine statement by statement, every filesystem   *)
(*                call of it succeeding or throwing, on one directory      *)
(*   UpdateSpec   install of releases with different payload names, and    *)
(*                uninstall, on one directory                              *)
(*   LegacySpec   install, uninstall and writeConfig on a directory that a  *)
(*                release without VKD3D support installed into             *)
(*   PayloadSpec  install from a cache whose folders list any names, and   *)
(*                uninstall, on one directory                              *)
(*   ArchSpec     install for either architecture, and uninstall, on one   *)
(*                directory                                                *)
(*   LoopSpec     the handlers of two requests for one directory on the    *)
(*                event loop, one filesystem step at a time                *)
(*   ReadSpec     the queries as the filesystem calls they make, on a      *)
(*                directory as found on disk                               *)
(*   QuerySpec    checkIntegrity and detectManualInstallation on a         *)
(*                directory as found on disk                               *)
(*   LibrarySpec  install, uninstall and check on two directories of one   *)
(*                disk                                                     *)
(*   CacheSpec    getEngineDlls on a cached version as found on disk       *)
(*   EnginesSpec  isVersionCached and getCachedVersions on the folder of a *)
(*                fork as found on disk                                    *)
(*   PeSpec       analyzeExecutable (gog-scanner.ts), statement by         *)
(*                statement                                                *)
(***************************************************************************)
EXTENDS Integers, Sequences, FiniteSets, TLC

(***************************************************************************)
(* Bounds                                                                  *)
(***************************************************************************)

\* number of operations (calls and outside changes) in one behaviour
MaxOps == 4

(***************************************************************************)
(* File names and file contents                                            *)
(***************************************************************************)
Absent   == "<absent>"
ORIGINAL == "ORIGINAL"      \* bytes of a file the game shipped with
TAMPERED == "TAMPERED"      \* bytes written by somebody else after an install

GameId == "game-1"

BackupSuffix == ".bak_dxvk_studio"
ConfName     == "dxvk.conf"

\* payload file names found in the cache
DllNames == {"d3d11.dll", "dxgi.dll", "d3d12.dll"}

backupPathOf(dllName) == dllName \o BackupSuffix

BackupNames == {backupPathOf(n) : n \in DllNames}

\* file names detectManualInstallation looks for, in the order of the code
ALL_DXVK_DLLS ==
  <<"d3d9.dll", "d3d10.dll", "d3d10_1.dll", "d3d10core.dll", "d3d11.dll", "dxgi.dll">>

ALL_VKD3D_DLLS == <<"d3d12.dll", "d3d12core.dll">>

KnownNames ==
  {ALL_DXVK_DLLS[i] : i \in 1..Len(ALL_DXVK_DLLS)}
    \cup {ALL_VKD3D_DLLS[i] : i \in 1..Len(ALL_VKD3D_DLLS)}

\* a payload name of the 1.x releases that the 2.x releases no longer have
OldPayloadNames == {"d3d10.dll"}

Paths ==
  DllNames \cup BackupNames \cup {ConfName} \cup KnownNames
    \cup {backupPathOf(n) : n \in OldPayloadNames}

\* String.prototype.toLowerCase on the file names of the model
toLowerCase(name) ==
  CASE name = "D3D12.DLL" -> "d3d12.dll"
    [] name = "D3D12CORE.DLL" -> "d3d12core.dll"
    [] OTHER -> name

\* hashFile: SHA-256 of the bytes, injective on the bytes of the model
hashOf(bytes) == <<"sha256", bytes>>

existsSync(files, path) == files[path] # Absent

hashFile(files, path) == hashOf(files[path])

\* renameSync(from, to): `to' is replaced, `from' disappears
renameSync(files, from, to) ==
  [files EXCEPT ![to] = files[from], ![from] = Absent]

rmSync(files, path) == [files EXCEPT ![path] = Absent]

(***************************************************************************)
(* The engine cache (engine-manager.ts)                                    *)
(***************************************************************************)
\* readdirSync of <cache>/<fork>/<version>/<x32|x64>; <<>> when the folder
\* does not exist.  vkd3d-proton ships x86/ and x64/, so x32 is absent.
CacheListing(fork, version, archFolder) ==
  CASE fork = "official" /\ version = "2.7"   /\ archFolder = "x64" -> <<"d3d11.dll", "dxgi.dll", "setup.txt">>
    [] fork = "official" /\ version = "2.7"   /\ archFolder = "x32" -> <<"d3d11.dll", "dxgi.dll">>
    [] fork = "official" /\ version = "1.10.3" /\ archFolder = "x64" -> <<"d3d10.dll", "d3d11.dll", "dxgi.dll">>
    [] fork = "official" /\ version = "2.7.1" /\ archFolder = "x64" -> <<"d3d11.dll", "dxgi.dll">>
    [] fork = "vkd3d"    /\ version = "2.13"  /\ archFolder = "x64" -> <<"d3d12.dll">>
    [] OTHER -> <<>>

\* bytes of a cached payload file
CacheBytes(fork, version, archFolder) == fork \o "-" \o version \o "-" \o archFolder

\* String.prototype.endsWith
endsWith(f, suffix) ==
  /\ Len(f) >= Len(suffix)
  /\ SubSeq(f, Len(f) - Len(suffix) + 1, Len(f)) = suffix

\* a filter that accepts '.dll' anywhere in the name (f.includes('.dll'))
endsWithDll_includes(f) ==
  \E i \in 1..Len(f) : i + 3 <= Len(f) /\ SubSeq(f, i, i + 3) = ".dll"

\* f.endsWith('.dll')
endsWithDll(f) == endsWith(f, ".dll")

\* readdirSync(dllPath).filter(f => f.endsWith('.dll'))
RECURSIVE filterListing(_)
filterListing(listing) ==
  IF listing = <<>> THEN <<>>
  ELSE IF endsWithDll(Head(listing))
       THEN <<Head(listing)>> \o filterListing(Tail(listing))
       ELSE filterListing(Tail(listing))

\* an architecture folder of a cached version: whether it exists, whether
\* readdirSync succeeds on it, and what it lists
NoFolder == [exists |-> FALSE, readable |-> FALSE, listing |-> <<>>]

ArchFolders == {"x32", "x64"}

archFolderOf(architecture) == IF architecture = "32" THEN "x32" ELSE "x64"

\* the cached version <cache>/<fork>/<version> as its architecture folders
CacheOf(fork, version) ==
  [archFolder \in ArchFolders |->
     IF CacheListing(fork, version, archFolder) = <<>> THEN NoFolder
     ELSE [exists |-> TRUE, readable |-> TRUE,
           listing |-> CacheListing(fork, version, archFolder)]]

\* lines 437-466 of getEngineDlls on a cached version: the names listed
engineDllsIn(versionCache, architecture) ==
  LET dllPath == versionCache[archFolderOf(architecture)]
  IN IF ~dllPath.exists THEN <<>>
     ELSE IF ~dllPath.readable THEN <<>>
     ELSE filterListing(dllPath.listing)

getEngineDlls(fork, version, architecture) ==
  LET dlls == engineDllsIn(CacheOf(fork, version), architecture)
  IN [i \in 1..Len(dlls) |->
        [name |-> dlls[i],
         bytes |-> CacheBytes(fork, version, archFolderOf(architecture))]]

(***************************************************************************)
(* Manifest store                                                          *)
(***************************************************************************)
NoPath == "<undefined>"

\* value of the manifest variable while no parsed manifest is on disk
NoManifest ==
  [gameId |-> "", engineVersion |-> "", engineFork |-> "", architecture |-> "",
   dlls |-> <<>>, hasComponents |-> FALSE, components |-> <<>>,
   configPath |-> NoPath]

\* a directory: files, state of the manifest file, parsed manifest
MkDir(files, mfile, manifest) ==
  [files |-> files, mfile |-> mfile, manifest |-> manifest]

\* readManifest(gamePath) !== null
manifestReadable(d) == d.mfile = "ok"

readManifest(d) == IF d.mfile = "ok" THEN d.manifest ELSE NoManifest

writeManifest(d, m) == [d EXCEPT !.mfile = "ok", !.manifest = m]

removeManifest(d) == [d EXCEPT !.mfile = "absent", !.manifest = NoManifest]

vkd3dNames == {"d3d12.dll", "d3d12core.dll"}

\* a partition that ignores the family: every name belongs to every scope
isTargetDll_anyFamily(component, name) == TRUE

\* isTargetDll of installEngine, uninstallEngine and checkIntegrity;
\* component "all" stands for an undefined component
isTargetDll(component, name) ==
  IF component = "all" THEN TRUE
  ELSE IF component = "vkd3d" THEN toLowerCase(name) \in vkd3dNames
  ELSE toLowerCase(name) \notin vkd3dNames

RECURSIVE filterDlls(_, _, _)
filterDlls(dlls, component, wanted) ==
  IF dlls = <<>> THEN <<>>
  ELSE IF isTargetDll(component, Head(dlls).name) = wanted
       THEN <<Head(dlls)>> \o filterDlls(Tail(dlls), component, wanted)
       ELSE filterDlls(Tail(dlls), component, wanted)

(***************************************************************************)
(* checkIntegrity                                                          *)
(***************************************************************************)
\* a scan in two passes: every entry for presence, then every entry for
\* its hash
RECURSIVE scanDlls_hashesOnly(_, _)
scanDlls_hashesOnly(files, targetDlls) ==
  IF targetDlls = <<>> THEN "ok"
  ELSE IF hashFile(files, Head(targetDlls).name) # Head(targetDlls).hash THEN "corrupt"
  ELSE scanDlls_hashesOnly(files, Tail(targetDlls))

scanDlls_missingFirst(files, targetDlls) ==
  IF \E i \in 1..Len(targetDlls) : ~existsSync(files, targetDlls[i].name)
  THEN "missing"
  ELSE scanDlls_hashesOnly(files, targetDlls)

\* a scan that checks presence only and never re-hashes
RECURSIVE scanDlls_presenceOnly(_, _)
scanDlls_presenceOnly(files, targetDlls) ==
  IF targetDlls = <<>> THEN "ok"
  ELSE IF ~existsSync(files, Head(targetDlls).name) THEN "missing"
  ELSE scanDlls_presenceOnly(files, Tail(targetDlls))

RECURSIVE scanDlls(_, _)
scanDlls(files, targetDlls) ==
  IF targetDlls = <<>> THEN "ok"
  ELSE IF ~existsSync(files, Head(targetDlls).name) THEN "missing"
  ELSE IF hashFile(files, Head(targetDlls).name) # Head(targetDlls).hash THEN "corrupt"
  ELSE scanDlls(files, Tail(targetDlls))

checkIntegrity(d, component) ==
  IF ~manifestReadable(d) THEN "not_installed"
  ELSE LET targetDlls == filterDlls(readManifest(d).dlls, component, TRUE)
       IN IF component # "all" /\ targetDlls = <<>> THEN "not_installed"
          ELSE scanDlls(d.files, targetDlls)

(***************************************************************************)
(* detectManualInstallation                                                *)
(***************************************************************************)
\* the two loops of lines 136-149: the names of the list that exist, in order
RECURSIVE foundDlls(_, _)
foundDlls(files, names) ==
  IF names = <<>> THEN <<>>
  ELSE IF existsSync(files, Head(names))
       THEN <<Head(names)>> \o foundDlls(files, Tail(names))
       ELSE foundDlls(files, Tail(names))

\* a detection that scans the directory whether or not a manifest exists
manifestOwnsFiles_never(d) == FALSE

\* the guard of lines 121-130: with a manifest, nothing counts as manual
manifestOwnsFiles(d) == manifestReadable(d)

detectManualInstallation(d) ==
  IF manifestOwnsFiles(d)
  THEN [detected |-> FALSE,
        dxvk  |-> [found |-> FALSE, dlls |-> <<>>],
        vkd3d |-> [found |-> FALSE, dlls |-> <<>>]]
  ELSE LET foundDxvkDlls  == foundDlls(d.files, ALL_DXVK_DLLS)
           foundVkd3dDlls == foundDlls(d.files, ALL_VKD3D_DLLS)
           dxvkFound  == Len(foundDxvkDlls) > 0
           vkd3dFound == Len(foundVkd3dDlls) > 0
       IN [detected |-> dxvkFound \/ vkd3dFound,
           dxvk  |-> [found |-> dxvkFound,  dlls |-> foundDxvkDlls],
           vkd3d |-> [found |-> vkd3dFound, dlls |-> foundVkd3dDlls]]

(***************************************************************************)
(* installEngine                                                           *)
(***************************************************************************)
componentTypeOf(fork) == IF fork = "vkd3d" THEN "vkd3d" ELSE "dxvk"

\* A filesystem fault injected into one call: the rename or the copy of the
\* at-th payload file raises, or the manifest write raises (at = 0).
NoFault == [at |-> 0, op |-> "none"]

\* manifest.dlls.some(d => d.name === dllName)
isTrackedName(m, dllName) == \E k \in 1..Len(m.dlls) : m.dlls[k].name = dllName

\* an install that does not refuse architecture unknown
archRejected_never(architecture) == FALSE

\* the guard of lines 242-244
archRejected(architecture) == architecture = "unknown"

\* a backup condition that does not look at the manifest
shouldBackup_ignoreTracked(files, m, dllName) ==
  /\ existsSync(files, dllName)
  /\ ~existsSync(files, backupPathOf(dllName))

\* the condition under which the target is renamed aside (lines 316-324)
shouldBackup(files, m, dllName) ==
  /\ existsSync(files, dllName)
  /\ ~existsSync(files, backupPathOf(dllName))
  /\ ~isTrackedName(m, dllName)

\* a record that hashes the backup path instead of the copied target
deployedDll_hashOfBackup(files, dllName) ==
  [name |-> dllName,
   hash |-> hashFile(files, backupPathOf(dllName)),
   backupPath |-> IF existsSync(files, backupPathOf(dllName))
                  THEN backupPathOf(dllName) ELSE NoPath]

\* a record that never names a backup
deployedDll_noBackup(files, dllName) ==
  [name |-> dllName, hash |-> hashFile(files, dllName), backupPath |-> NoPath]

\* the DeployedDll pushed for a copied file (lines 335-339)
deployedDll(files, dllName) ==
  [name |-> dllName,
   hash |-> hashFile(files, dllName),
   backupPath |-> IF existsSync(files, backupPathOf(dllName))
                  THEN backupPathOf(dllName) ELSE NoPath]

\* the loop over sourceDlls (lines 310-340); m is the manifest as read
RECURSIVE installLoop(_, _, _, _, _, _)
installLoop(files, deployedDlls, sourceDlls, i, m, fault) ==
  IF i > Len(sourceDlls)
  THEN [files |-> files, deployedDlls |-> deployedDlls, thrown |-> FALSE]
  ELSE
    LET dllName    == sourceDlls[i].name
        targetPath == dllName
        backupPath == backupPathOf(dllName)
        doBackup   == shouldBackup(files, m, dllName)
        afterBackup == IF doBackup THEN renameSync(files, targetPath, backupPath)
                       ELSE files
        afterCopy  == [afterBackup EXCEPT ![targetPath] = sourceDlls[i].bytes]
        deployed   == deployedDll(afterCopy, dllName)
    IN IF doBackup /\ fault = [at |-> i, op |-> "rename"]
       THEN [files |-> files, deployedDlls |-> deployedDlls, thrown |-> TRUE]
       ELSE IF fault = [at |-> i, op |-> "copy"]
       THEN [files |-> afterBackup, deployedDlls |-> deployedDlls, thrown |-> TRUE]
       ELSE installLoop(afterCopy, Append(deployedDlls, deployed),
                        sourceDlls, i + 1, m, fault)

\* a migration that starts the map empty and forgets the legacy engine
migratedComponents_empty(m) ==
  IF m.hasComponents THEN m.components ELSE <<>>

\* manifest.components after the migration of a legacy manifest (268-278)
migratedComponents(m) ==
  IF m.hasComponents THEN m.components
  ELSE IF m.engineVersion # "" /\ m.engineFork # ""
       THEN [c \in {"dxvk"} |-> [version |-> m.engineVersion, fork |-> m.engineFork]]
       ELSE <<>>

\* an install that replaces the whole map by the record of its family
setComponent_only(components, componentType, version, fork) ==
  [c \in {componentType} |-> [version |-> version, fork |-> fork]]

\* components[componentType] = {version, fork}
setComponent(components, componentType, version, fork) ==
  [c \in (DOMAIN components) \cup {componentType} |->
     IF c = componentType THEN [version |-> version, fork |-> fork]
     ELSE components[c]]

\* an uninstall that forgets to drop the family's record
deleteComponent_keep(components, component) == components

\* delete components[component]
deleteComponent(components, component) ==
  [c \in (DOMAIN components) \ {component} |-> components[c]]

\* an install that leaves the top-level fields as the manifest had them
legacyFields_keep(m, version, fork) == m

\* "Update legacy fields for backward compat" (lines 287-288)
legacyFields(m, version, fork) ==
  [m EXCEPT !.engineVersion = version, !.engineFork = fork]

\* the manifest object after lines 257-288: read or created, migrated, with
\* the record of the family and the top-level fields set
preparedManifest(d, gameId, fork, version, architecture) ==
  LET m0 == IF manifestReadable(d) THEN readManifest(d)
            ELSE [gameId |-> gameId, engineVersion |-> version,
                  engineFork |-> fork, architecture |-> architecture,
                  dlls |-> <<>>, hasComponents |-> TRUE,
                  components |-> <<>>, configPath |-> NoPath]
  IN legacyFields(
       [m0 EXCEPT
          !.hasComponents = TRUE,
          !.components = setComponent(migratedComponents(m0),
                                      componentTypeOf(fork), version, fork)],
       version, fork)

\* installEngine from line 253 on, given the list getEngineDlls returned:
\* the directory afterwards and whether it threw
installListed(d, gameId, fork, version, architecture, sourceDlls, fault) ==
  LET componentType == componentTypeOf(fork)
  IN IF Len(sourceDlls) = 0 THEN [dir |-> d, thrown |-> TRUE]
     ELSE
       LET m1 == preparedManifest(d, gameId, fork, version, architecture)
           otherDlls == filterDlls(m1.dlls, componentType, FALSE)
           loop == installLoop(d.files, <<>>, sourceDlls, 1, m1, fault)
           m2 == [m1 EXCEPT !.dlls = otherDlls \o loop.deployedDlls]
       IN IF loop.thrown \/ fault = [at |-> 0, op |-> "write"]
          THEN [dir |-> [d EXCEPT !.files = loop.files], thrown |-> TRUE]
          ELSE [dir |-> writeManifest([d EXCEPT !.files = loop.files], m2),
                thrown |-> FALSE]

\* result of installEngine: the directory afterwards and whether it threw
installEngine(d, gameId, fork, version, architecture, fault) ==
  IF archRejected(architecture) THEN [dir |-> d, thrown |-> TRUE]
  ELSE installListed(d, gameId, fork, version, architecture,
                     getEngineDlls(fork, version, architecture), fault)

(***************************************************************************)
(* uninstallEngine                                                         *)
(***************************************************************************)
\* "Remove DLL" (lines 380-382)
removeDll(files, dll) ==
  IF existsSync(files, dll.name) THEN rmSync(files, dll.name) ELSE files

\* an uninstall that leaves the backups where they are
restoreBackup_never(files, dll) == files

\* "Restore backup if exists" (lines 385-387)
restoreBackup(files, dll) ==
  IF dll.backupPath # NoPath /\ existsSync(files, dll.backupPath)
  THEN renameSync(files, dll.backupPath, dll.name)
  ELSE files

\* the loop over dllsToRemove (lines 375-388)
RECURSIVE uninstallLoop(_, _)
uninstallLoop(files, dllsToRemove) ==
  IF dllsToRemove = <<>> THEN files
  ELSE uninstallLoop(restoreBackup(removeDll(files, Head(dllsToRemove)),
                                   Head(dllsToRemove)),
                     Tail(dllsToRemove))

\* removal of the generated dxvk.conf and of the manifest (lines 401-405, 419-423)
removeConfAndManifest(d, m) ==
  LET confPath == ConfName
      files1 == IF existsSync(d.files, confPath) /\ m.configPath = confPath
                THEN rmSync(d.files, confPath) ELSE d.files
  IN removeManifest([d EXCEPT !.files = files1])

\* "Handle manifest updates" (lines 390-424) on the manifest object m read
\* at entry: the directory afterwards
updateManifest(d, m, component) ==
  IF component # "all" /\ m.hasComponents
  THEN LET comps == deleteComponent(m.components, component)
           m1 == [m EXCEPT !.components = comps]
       IN IF DOMAIN comps = {}
          THEN removeConfAndManifest(d, m1)
          ELSE writeManifest(d, [m1 EXCEPT !.dlls = filterDlls(m.dlls, component, FALSE)])
  ELSE removeConfAndManifest(d, m)

\* result of uninstallEngine: the directory afterwards and the returned value
uninstallEngine(d, component) ==
  IF ~manifestReadable(d) THEN [dir |-> d, result |-> FALSE]
  ELSE
    LET manifest     == readManifest(d)
        dllsToRemove == filterDlls(manifest.dlls, component, TRUE)
        d1 == [d EXCEPT !.files = uninstallLoop(d.files, dllsToRemove)]
    IN [dir |-> updateManifest(d1, manifest, component), result |-> TRUE]

(***************************************************************************)
(* writeConfig                                                             *)
(***************************************************************************)
GENERATED == "GENERATED"    \* bytes of generateConfigFile(config)

\* writeConfig(gamePath, config): dxvk.conf is written, and a readable
\* manifest is rewritten with configPath set
writeConfig(d) ==
  LET confPath == ConfName
      d1 == [d EXCEPT !.files[confPath] = GENERATED]
  IN IF manifestReadable(d1)
     THEN writeManifest(d1, [readManifest(d1) EXCEPT !.configPath = confPath])
     ELSE d1

(***************************************************************************)
(* installDxvk, the installer of the releases before VKD3D was supported   *)
(***************************************************************************)
\* the loop of installDxvk: an existing file the manifest does not list is
\* renamed aside, then the payload file is copied and recorded
RECURSIVE installDxvkLoop(_, _, _, _, _)
installDxvkLoop(files, deployedDlls, sourceDlls, i, d) ==
  IF i > Len(sourceDlls) THEN [files |-> files, deployedDlls |-> deployedDlls]
  ELSE
    LET dllName  == sourceDlls[i].name
        isOurDll == manifestReadable(d) /\ isTrackedName(readManifest(d), dllName)
        afterBackup == IF existsSync(files, dllName) /\ ~isOurDll
                       THEN renameSync(files, dllName, backupPathOf(dllName))
                       ELSE files
        afterCopy == [afterBackup EXCEPT ![dllName] = sourceDlls[i].bytes]
    IN installDxvkLoop(afterCopy, Append(deployedDlls, deployedDll(afterCopy, dllName)),
                       sourceDlls, i + 1, d)

\* installDxvk while no filesystem call raises: the directory afterwards
installDxvk(d, gameId, fork, version, architecture) ==
  LET sourceDlls == getEngineDlls(fork, version, architecture)
      loop == installDxvkLoop(d.files, <<>>, sourceDlls, 1, d)
  IN IF architecture = "unknown" \/ Len(sourceDlls) = 0 THEN d
     ELSE writeManifest([d EXCEPT !.files = loop.files],
                        [gameId |-> gameId, engineVersion |-> version,
                         engineFork |-> fork, architecture |-> architecture,
                         dlls |-> loop.deployedDlls, hasComponents |-> FALSE,
                         components |-> <<>>, configPath |-> NoPath])

(***************************************************************************)
(* analyze (electron/main.ts): the status shown for a game                 *)
(***************************************************************************)
Undefined == "<undefined>"

\* the status of a family that has a record in components (lines 291-294)
statusOfRecorded(integrity) ==
  CASE integrity = "ok" -> "active"
    [] integrity = "corrupt" -> "corrupt"
    [] OTHER -> "inactive"

\* the part of analyze that reads the directory; the architecture it also
\* returns is that of analyzeExecutable
analyze(d) ==
  IF manifestReadable(d)
  THEN
    LET m == readManifest(d)
        hasDxvk  == m.hasComponents /\ "dxvk" \in DOMAIN m.components
        hasVkd3d == m.hasComponents /\ "vkd3d" \in DOMAIN m.components
        legacyDxvk  == ~hasDxvk /\ m.engineVersion # "" /\ m.engineFork # "vkd3d"
        legacyVkd3d == ~hasVkd3d /\ m.engineFork = "vkd3d"
        all == checkIntegrity(d, "all")
    IN [dxvkStatus |->
          IF hasDxvk THEN statusOfRecorded(checkIntegrity(d, "dxvk"))
          ELSE IF legacyDxvk
               THEN (IF all = "ok" THEN "active"
                     ELSE IF all = "corrupt" THEN "corrupt" ELSE "inactive")
               ELSE "inactive",
        dxvkVersion |->
          IF hasDxvk THEN m.components["dxvk"].version
          ELSE IF legacyDxvk THEN m.engineVersion ELSE Undefined,
        dxvkFork |->
          IF hasDxvk THEN m.components["dxvk"].fork
          ELSE IF legacyDxvk THEN m.engineFork ELSE Undefined,
        vkd3dStatus |->
          IF hasVkd3d THEN statusOfRecorded(checkIntegrity(d, "vkd3d"))
          ELSE IF legacyVkd3d
               THEN (IF all = "ok" THEN "active" ELSE "inactive")
               ELSE "inactive",
        vkd3dVersion |->
          IF hasVkd3d THEN m.components["vkd3d"].version
          ELSE IF legacyVkd3d THEN m.engineVersion ELSE Undefined,
        vkd3dFork |->
          IF hasVkd3d THEN m.components["vkd3d"].fork
          ELSE IF legacyVkd3d THEN m.engineFork ELSE Undefined]
  ELSE
    LET manualStatus == detectManualInstallation(d)
    IN [dxvkStatus  |-> IF manualStatus.dxvk.found THEN "manual" ELSE "inactive",
        dxvkVersion |-> Undefined, dxvkFork |-> Undefined,
        vkd3dStatus |-> IF manualStatus.vkd3d.found THEN "manual" ELSE "inactive",
        vkd3dVersion |-> Undefined, vkd3dFork |-> Undefined]

(***************************************************************************)
(* State                                                                   *)
(***************************************************************************)
VARIABLES
  files,      \* the game directory: path -> bytes, Absent when no such file
  mfile,      \* dxvk_studio_manifest.json: "absent", "corrupt" or "ok"
  manifest,   \* the parsed manifest when mfile = "ok"
  last,       \* the operation that led to this state, its arguments and
              \* outcome, and the directory it started from (last.pre)
  origin,     \* per family: the files as they were before the first Install
              \* call of the family since it was last uninstalled
  ops,        \* number of operations performed so far
  exe,        \* the executable analyzeExecutable is called on
  pe,         \* the call of analyzeExecutable: position, handle, result
  cache,      \* the part of the engine cache a query reads: the folders of
              \* a cached version, or the folder of a fork
  disk,       \* the game directories of the library: gamePath -> directory
  solo,       \* per gamePath: the directory as its own operations alone
              \* would have left it
  call,       \* the call of installEngine that is being executed statement
              \* by statement: position, locals, directory at entry
  loop        \* the event loop of the main process: the handlers of the
              \* requests in flight and the one that is on the stack

vars == <<files, mfile, manifest, last, origin, ops, exe, pe, cache, disk, solo, call, loop>>

\* the parts of the state a specification does not use keep these values
dirVars == <<files, mfile, manifest, last, origin, ops>>
auxVars == <<exe, pe, cache, disk, solo, call, loop>>

NoExe == [openable |-> FALSE]
NotAnalysing == [pc |-> "idle"]
NoCache == <<>>
NoDisk == <<>>
NoCall == [pc |-> "idle"]
NoLoop == [running |-> 0]

PeUnused == exe = NoExe /\ pe = NotAnalysing
CacheUnused == cache = NoCache
DiskUnused == disk = NoDisk /\ solo = NoDisk
CallUnused == call = NoCall
LoopUnused == loop = NoLoop

Dir == MkDir(files, mfile, manifest)

\* requests the callers make: (fork, version, architecture)
InstallRequests ==
  { <<"official", "2.7",   "64">>, <<"official", "2.7.1", "64">>,
    <<"vkd3d",    "2.13",  "64">>, <<"vkd3d",    "2.13",  "32">>,
    <<"official", "2.7",   "unknown">> }

\* longest payload listing among InstallRequests
MaxPayload == 2

Faults ==
  {NoFault, [at |-> 0, op |-> "write"]}
    \cup [at : 1..MaxPayload, op : {"rename", "copy"}]

Components == {"dxvk", "vkd3d"}
Scopes     == Components \cup {"all"}

\* files a game may ship with under a payload name
ShippedNames == {"d3d11.dll", "d3d12.dll"}

OpTag(op, fork, version, architecture, component, name, ok) ==
  [op |-> op, fork |-> fork, version |-> version,
   architecture |-> architecture, component |-> component, name |-> name,
   ok |-> ok]

Remember(tag) ==
  /\ ops < MaxOps
  /\ ops' = ops + 1
  /\ last' = [op |-> tag.op, fork |-> tag.fork, version |-> tag.version,
              architecture |-> tag.architecture, component |-> tag.component,
              name |-> tag.name, ok |-> tag.ok, pre |-> Dir]

SetDir(d) ==
  /\ files' = d.files
  /\ mfile' = d.mfile
  /\ manifest' = d.manifest

NoFiles == [p \in Paths |-> Absent]

NotStarted == [started |-> FALSE, files |-> NoFiles]

Init ==
  /\ \E shipped \in SUBSET ShippedNames :
        files = [p \in Paths |-> IF p \in shipped THEN ORIGINAL ELSE Absent]
  /\ mfile = "absent"
  /\ manifest = NoManifest
  /\ last = [op |-> "none", fork |-> "", version |-> "", architecture |-> "",
             component |-> "", name |-> "", ok |-> TRUE, pre |-> Dir]
  /\ origin = [c \in Components |-> NotStarted]
  /\ ops = 0
  /\ PeUnused /\ CacheUnused /\ DiskUnused /\ CallUnused /\ LoopUnused

(***************************************************************************)
(* Actions                                                                 *)
(***************************************************************************)
\* ipcMain 'dxvk:install' and 'dxvk:update' (updateEngine is installEngine)
Install ==
  \E req \in InstallRequests, fault \in Faults :
    LET r == installEngine(Dir, GameId, req[1], req[2], req[3], fault)
    IN /\ SetDir(r.dir)
       /\ Remember(OpTag("install", req[1], req[2], req[3],
                         componentTypeOf(req[1]), "", ~r.thrown))
       /\ origin' = [origin EXCEPT ![componentTypeOf(req[1])] =
                       IF @.started THEN @
                       ELSE [started |-> TRUE, files |-> files]]
       /\ UNCHANGED auxVars

\* ipcMain 'dxvk:uninstall'
Uninstall ==
  \E component \in Scopes :
    LET r == uninstallEngine(Dir, component)
    IN /\ SetDir(r.dir)
       /\ Remember(OpTag("uninstall", "", "", "", component, "", r.result))
       /\ origin' = [c \in Components |->
                       IF r.result /\ component \in {c, "all"} THEN NotStarted
                       ELSE origin[c]]
       /\ UNCHANGED auxVars

\* somebody else deletes a file the manifest tracks
ExternalDelete ==
  \E name \in DllNames :
    /\ mfile = "ok"
    /\ isTrackedName(manifest, name)
    /\ existsSync(files, name)
    /\ files' = rmSync(files, name)
    /\ UNCHANGED <<mfile, manifest, origin>>
    /\ UNCHANGED auxVars
    /\ Remember(OpTag("extDelete", "", "", "", "", name, TRUE))

\* somebody else overwrites a file the manifest tracks with other bytes
ExternalOverwrite ==
  \E name \in DllNames :
    /\ mfile = "ok"
    /\ isTrackedName(manifest, name)
    /\ existsSync(files, name)
    /\ files[name] # TAMPERED
    /\ files' = [files EXCEPT ![name] = TAMPERED]
    /\ UNCHANGED <<mfile, manifest, origin>>
    /\ UNCHANGED auxVars
    /\ Remember(OpTag("extOverwrite", "", "", "", "", name, TRUE))

Next ==
  \/ Install
  \/ Uninstall
  \/ ExternalDelete
  \/ ExternalOverwrite

Spec == Init /\ [][Next]_vars

\* ipcMain 'config:save'
WriteConfig ==
  /\ SetDir(writeConfig(Dir))
  /\ Remember(OpTag("writeConfig", "", "", "", "", "", TRUE))
  /\ UNCHANGED origin
  /\ UNCHANGED auxVars

\* the manifest file is damaged from outside (truncated, edited): it no
\* longer parses
CorruptManifest ==
  /\ mfile = "ok"
  /\ mfile' = "corrupt"
  /\ manifest' = NoManifest
  /\ UNCHANGED <<files, origin>>
  /\ UNCHANGED auxVars
  /\ Remember(OpTag("corruptManifest", "", "", "", "", "", TRUE))

\* 'dxvk:install' and 'dxvk:update' while no filesystem call raises
InstallNoFault ==
  \E req \in InstallRequests :
    LET r == installEngine(Dir, GameId, req[1], req[2], req[3], NoFault)
    IN /\ SetDir(r.dir)
       /\ Remember(OpTag("install", req[1], req[2], req[3],
                         componentTypeOf(req[1]), "", ~r.thrown))
       /\ origin' = [origin EXCEPT ![componentTypeOf(req[1])] =
                       IF @.started THEN @
                       ELSE [started |-> TRUE, files |-> files]]
       /\ UNCHANGED auxVars

\* the operations that write, remove or damage the manifest file
ManifestNext ==
  \/ InstallNoFault
  \/ Uninstall
  \/ WriteConfig
  \/ CorruptManifest

ManifestSpec == Init /\ [][ManifestNext]_vars

\* requests for releases whose payloads list different names
UpdateRequests ==
  { <<"official", "1.10.3", "64">>, <<"official", "2.7", "64">>,
    <<"vkd3d",    "2.13",   "64">> }

\* 'dxvk:install' and 'dxvk:update' with a release of another generation,
\* while no filesystem call raises
InstallRelease ==
  \E req \in UpdateRequests :
    LET r == installEngine(Dir, GameId, req[1], req[2], req[3], NoFault)
    IN /\ SetDir(r.dir)
       /\ Remember(OpTag("install", req[1], req[2], req[3],
                         componentTypeOf(req[1]), "", ~r.thrown))
       /\ origin' = [origin EXCEPT ![componentTypeOf(req[1])] =
                       IF @.started THEN @
                       ELSE [started |-> TRUE, files |-> files]]
       /\ UNCHANGED auxVars

UpdateNext ==
  \/ InstallRelease
  \/ Uninstall

UpdateSpec == Init /\ [][UpdateNext]_vars

\* requests for one game under both architectures: the architecture is an
\* argument of the call, taken from the game's record in the library
ArchRequests ==
  { <<"official", "2.7", "64">>, <<"official", "2.7", "32">>,
    <<"vkd3d",    "2.13", "64">> }

\* 'dxvk:install' and 'dxvk:update' for either architecture, while no
\* filesystem call raises
InstallArch ==
  \E req \in ArchRequests :
    LET r == installEngine(Dir, GameId, req[1], req[2], req[3], NoFault)
    IN /\ SetDir(r.dir)
       /\ Remember(OpTag("install", req[1], req[2], req[3],
                         componentTypeOf(req[1]), "", ~r.thrown))
       /\ origin' = [origin EXCEPT ![componentTypeOf(req[1])] =
                       IF @.started THEN @
                       ELSE [started |-> TRUE, files |-> files]]
       /\ UNCHANGED auxVars

ArchNext ==
  \/ InstallArch
  \/ Uninstall

ArchSpec == Init /\ [][ArchNext]_vars

(***************************************************************************)
(* Installs from the engine cache as it is on disk.  downloadEngine unpacks *)
(* the archive behind the url it is given into <cache>/<fork>/<version>,   *)
(* and installEngine deploys every .dll getEngineDlls lists there: which   *)
(* names a fork's folder holds is decided by the archive, not by the fork. *)
(***************************************************************************)
CachedForks == {"official", "vkd3d"}

CachedVersion == "1.0"

\* names found in the x64 folder of an unpacked archive
UnpackedNames == {"d3d11.dll", "d3d12.dll"}

UnpackedListings ==
  {l \in UNION {[1..n -> UnpackedNames] : n \in 1..MaxPayload} :
     \A i, j \in DOMAIN l : i # j => l[i] # l[j]}

\* the cached version of a fork as its architecture folders
versionFolders(listing) ==
  [archFolder \in ArchFolders |->
     IF archFolder = "x64"
     THEN [exists |-> TRUE, readable |-> TRUE, listing |-> listing]
     ELSE NoFolder]

\* getEngineDlls on the cache as found: names and bytes of the payload
cachedEngineDlls(c, fork, architecture) ==
  LET dlls == engineDllsIn(c[fork], architecture)
  IN [i \in 1..Len(dlls) |->
        [name |-> dlls[i],
         bytes |-> CacheBytes(fork, CachedVersion, archFolderOf(architecture))]]

PayloadInit ==
  /\ \E shipped \in SUBSET ShippedNames :
        files = [p \in Paths |-> IF p \in shipped THEN ORIGINAL ELSE Absent]
  /\ \E listings \in [CachedForks -> UnpackedListings] :
        cache = [fork \in CachedForks |-> versionFolders(listings[fork])]
  /\ mfile = "absent"
  /\ manifest = NoManifest
  /\ last = [op |-> "none", fork |-> "", version |-> "", architecture |-> "",
             component |-> "", name |-> "", ok |-> TRUE, pre |-> Dir]
  /\ origin = [c \in Components |-> NotStarted]
  /\ ops = 0
  /\ PeUnused /\ DiskUnused /\ CallUnused /\ LoopUnused

\* 'dxvk:install' and 'dxvk:update' of the cached version of a fork, while
\* no filesystem call raises
InstallCached ==
  \E fork \in CachedForks :
    LET r == installListed(Dir, GameId, fork, CachedVersion, "64",
                           cachedEngineDlls(cache, fork, "64"), NoFault)
    IN /\ SetDir(r.dir)
       /\ Remember(OpTag("install", fork, CachedVersion, "64",
                         componentTypeOf(fork), "", ~r.thrown))
       /\ origin' = [origin EXCEPT ![componentTypeOf(fork)] =
                       IF @.started THEN @
                       ELSE [started |-> TRUE, files |-> files]]
       /\ UNCHANGED auxVars

PayloadNext ==
  \/ InstallCached
  \/ Uninstall

PayloadSpec == PayloadInit /\ [][PayloadNext]_vars

(***************************************************************************)
(* A directory that holds a legacy manifest: one written by installDxvk,   *)
(* the installer of the releases before VKD3D was supported, which has no  *)
(* components map                                                          *)
(***************************************************************************)
\* the directory as a legacy release left it after one install
LegacyInit ==
  /\ \E shipped \in SUBSET ShippedNames :
       LET d == installDxvk(
                  MkDir([p \in Paths |-> IF p \in shipped THEN ORIGINAL ELSE Absent],
                        "absent", NoManifest),
                  GameId, "official", "2.7", "64")
       IN files = d.files /\ mfile = d.mfile /\ manifest = d.manifest
  /\ last = [op |-> "none", fork |-> "", version |-> "", architecture |-> "",
             component |-> "", name |-> "", ok |-> TRUE, pre |-> Dir]
  /\ origin = [c \in Components |-> NotStarted]
  /\ ops = 0
  /\ PeUnused /\ CacheUnused /\ DiskUnused /\ CallUnused /\ LoopUnused

LegacyNext ==
  \/ InstallNoFault
  \/ Uninstall
  \/ WriteConfig

LegacySpec == LegacyInit /\ [][LegacyNext]_vars

(***************************************************************************)
(* installEngine, statement by statement                                   *)
(***************************************************************************)
\* number of calls of installEngine in one behaviour
MaxCalls == 2

StepFrame == UNCHANGED <<last, origin, exe, pe, cache, disk, solo, loop>>

\* a loop that writes the manifest after every file
manifestDue_eachFile(i, sourceDlls) == TRUE

\* the manifest is written when the loop over sourceDlls is over (line 342)
manifestDue(i, sourceDlls) == i > Len(sourceDlls)

\* the call has thrown at the named statement
thrownAt(c, statement) == [c EXCEPT !.pc = "thrown", !.failedAt = statement]

\* lines 242-308: the guards, the payload listing and the manifest object
InstallBegin ==
  /\ call.pc \in {"idle", "returned", "thrown"}
  /\ ops < MaxCalls
  /\ ops' = ops + 1
  /\ \E req \in InstallRequests :
       LET sourceDlls == getEngineDlls(req[1], req[2], req[3])
           entered == [pc |-> "backup", fork |-> req[1], version |-> req[2],
                       architecture |-> req[3], sourceDlls |-> sourceDlls, i |-> 1,
                       m |-> preparedManifest(Dir, GameId, req[1], req[2], req[3]),
                       deployedDlls |-> <<>>, writes |-> 0, failedAt |-> "",
                       entry |-> Dir]
       IN call' = IF archRejected(req[3]) \/ Len(sourceDlls) = 0
                  THEN thrownAt(entered, "guard")
                  ELSE entered
  /\ UNCHANGED <<files, mfile, manifest>>
  /\ StepFrame

\* lines 311-325: the existing file is renamed aside; renameSync may throw
InstallBackup ==
  /\ call.pc = "backup"
  /\ LET dllName == call.sourceDlls[call.i].name
     IN IF shouldBackup(files, call.m, dllName)
        THEN \E fails \in BOOLEAN :
               IF fails
               THEN call' = thrownAt(call, "rename") /\ files' = files
               ELSE /\ files' = renameSync(files, dllName, backupPathOf(dllName))
                    /\ call' = [call EXCEPT !.pc = "copy"]
        ELSE call' = [call EXCEPT !.pc = "copy"] /\ files' = files
  /\ UNCHANGED <<mfile, manifest, ops>>
  /\ StepFrame

\* line 333: copyFileSync overwrites the target; it may throw
InstallCopy ==
  /\ call.pc = "copy"
  /\ \E fails \in BOOLEAN :
       IF fails
       THEN call' = thrownAt(call, "copy") /\ files' = files
       ELSE /\ files' = [files EXCEPT ![call.sourceDlls[call.i].name] =
                                         call.sourceDlls[call.i].bytes]
            /\ call' = [call EXCEPT !.pc = "record"]
  /\ UNCHANGED <<mfile, manifest, ops>>
  /\ StepFrame

\* lines 335-339: the copied file is hashed (readFileSync may throw) and
\* its DeployedDll is pushed
InstallRecord ==
  /\ call.pc = "record"
  /\ \E fails \in BOOLEAN :
       IF fails
       THEN call' = thrownAt(call, "hash")
       ELSE call' = [call EXCEPT
                       !.deployedDlls =
                          Append(@, deployedDll(files, call.sourceDlls[call.i].name)),
                       !.i = @ + 1,
                       !.pc = IF manifestDue(call.i + 1, call.sourceDlls)
                              THEN "write" ELSE "backup"]
  /\ UNCHANGED <<files, mfile, manifest, ops>>
  /\ StepFrame

\* lines 342-348: writeManifest.  writeFileSync either writes the file, or
\* throws before it touched it, or throws with the file cut short
InstallWrite ==
  /\ call.pc = "write"
  /\ LET componentType == componentTypeOf(call.fork)
         otherDlls == filterDlls(call.m.dlls, componentType, FALSE)
         written == [call.m EXCEPT !.dlls = otherDlls \o call.deployedDlls]
     IN \E outcome \in {"written", "refused", "cut"} :
          CASE outcome = "written" ->
                 /\ mfile' = "ok" /\ manifest' = written
                 /\ call' = [call EXCEPT !.writes = @ + 1, !.pc = "returned"]
            [] outcome = "refused" ->
                 /\ UNCHANGED <<mfile, manifest>>
                 /\ call' = thrownAt([call EXCEPT !.writes = @ + 1], "write")
            [] outcome = "cut" ->
                 /\ mfile' = "corrupt" /\ manifest' = NoManifest
                 /\ call' = thrownAt([call EXCEPT !.writes = @ + 1], "write")
  /\ UNCHANGED <<files, ops>>
  /\ StepFrame

StepNext ==
  \/ InstallBegin
  \/ InstallBackup
  \/ InstallCopy
  \/ InstallRecord
  \/ InstallWrite

StepSpec == Init /\ [][StepNext]_vars

(***************************************************************************)
(* The event loop of the main process.  Every ipcMain handler is an async  *)
(* function: it runs on the stack from its first statement to its first    *)
(* await, and each continuation runs from one await to the next.  While a  *)
(* handler is on the stack no other handler runs; a handler that awaits    *)
(* leaves the stack and any waiting handler may run next.  Here two        *)
(* requests for the same game directory are in flight and their handlers   *)
(* are executed one filesystem step at a time.                             *)
(***************************************************************************)
HandlerIds == {1, 2}

LoopRequests ==
  { [kind |-> "install", fork |-> "official", version |-> "2.7.1",
     architecture |-> "64", component |-> "dxvk"],
    [kind |-> "install", fork |-> "vkd3d", version |-> "2.13",
     architecture |-> "64", component |-> "vkd3d"],
    [kind |-> "uninstall", fork |-> "", version |-> "", architecture |-> "",
     component |-> "dxvk"],
    [kind |-> "uninstall", fork |-> "", version |-> "", architecture |-> "",
     component |-> "all"],
    [kind |-> "check", fork |-> "", version |-> "", architecture |-> "",
     component |-> ""] }

\* a handler in which every statement is followed by an await
awaits_everyStatement(kind, pc) == TRUE

\* whether the handler awaits before the statement at pc: the only await of
\* the four handlers is that of 'dxvk:uninstall' (main.ts:455), applied to
\* the value uninstallEngine has already returned
awaits(kind, pc) == kind = "uninstall" /\ pc = "return"

\* the value 'dxvk:checkStatus' returns on directory d
checkStatus(d) ==
  IF ~manifestReadable(d) THEN [installed |-> FALSE]
  ELSE [installed |-> TRUE,
        version |-> readManifest(d).engineVersion,
        fork |-> readManifest(d).engineFork,
        integrity |-> checkIntegrity(d, "all")]

\* a request handled alone, start to end: the directory and the value
\* returned
handled(d, req) ==
  CASE req.kind = "install" ->
         LET r == installEngine(d, GameId, req.fork, req.version,
                                req.architecture, NoFault)
         IN [dir |-> r.dir, result |-> [success |-> ~r.thrown]]
    [] req.kind = "uninstall" ->
         LET r == uninstallEngine(d, req.component)
         IN [dir |-> r.dir, result |-> [success |-> r.result]]
    [] req.kind = "check" -> [dir |-> d, result |-> checkStatus(d)]

\* two requests handled one after the other
inOrder(d, first, second) ==
  LET a == handled(d, first)
      b == handled(a.dir, second)
  IN [dir |-> b.dir, first |-> a.result, second |-> b.result]

NoLocals == [m |-> NoManifest, list |-> <<>>, i |-> 0, deployedDlls |-> <<>>]

queuedHandler(req) ==
  [req |-> req, pc |-> "enter", waiting |-> TRUE, locals |-> NoLocals,
   result |-> "<pending>"]

\* directories the two requests may find
LoopEntries ==
  LET fresh == {MkDir([p \in Paths |-> IF p \in shipped THEN ORIGINAL ELSE Absent],
                      "absent", NoManifest) : shipped \in SUBSET ShippedNames}
      withDxvk == {installEngine(d, GameId, "official", "2.7", "64", NoFault).dir :
                     d \in fresh}
      withBoth == {installEngine(d, GameId, "vkd3d", "2.13", "64", NoFault).dir :
                     d \in withDxvk}
  IN fresh \cup withDxvk \cup withBoth

LoopInit ==
  /\ \E d \in LoopEntries, r1, r2 \in LoopRequests :
       /\ files = d.files /\ mfile = d.mfile /\ manifest = d.manifest
       /\ loop = [running |-> 0, entry |-> d,
                  handlers |-> <<queuedHandler(r1), queuedHandler(r2)>>]
  /\ last = [op |-> "none", pre |-> Dir]
  /\ origin = [c \in Components |-> NotStarted]
  /\ ops = 0
  /\ PeUnused /\ CacheUnused /\ DiskUnused /\ CallUnused

LoopFrame == UNCHANGED <<last, origin, ops, exe, pe, cache, disk, solo, call>>

\* handler id may execute its next statement: it is on the stack, or the
\* stack is empty and it waits in the queue
Turn(id) ==
  \/ loop.running = id
  \/ loop.running = 0 /\ loop.handlers[id].waiting

\* the handler goes on as h: it leaves the stack when it is done or awaits
Advance(id, h) ==
  LET leaves == h.pc # "done" /\ awaits(h.req.kind, h.pc)
  IN loop' = [loop EXCEPT
                !.handlers[id] = [h EXCEPT !.waiting = leaves],
                !.running = IF leaves \/ h.pc = "done" THEN 0 ELSE id]

At(id, kind, pc) ==
  /\ loop.handlers[id].req.kind = kind
  /\ loop.handlers[id].pc = pc
  /\ Turn(id)

\* 'dxvk:install' up to the loop of installEngine (deployer.ts:242-308)
HandleInstallEnter ==
  \E id \in HandlerIds :
    /\ At(id, "install", "enter")
    /\ LET h == loop.handlers[id]
           sourceDlls == getEngineDlls(h.req.fork, h.req.version, h.req.architecture)
       IN IF archRejected(h.req.architecture) \/ Len(sourceDlls) = 0
          THEN Advance(id, [h EXCEPT !.pc = "done", !.result = [success |-> FALSE]])
          ELSE Advance(id, [h EXCEPT
                 !.pc = "file",
                 !.locals = [m |-> preparedManifest(Dir, GameId, h.req.fork,
                                                    h.req.version, h.req.architecture),
                             list |-> sourceDlls, i |-> 1, deployedDlls |-> <<>>]])
    /\ UNCHANGED <<files, mfile, manifest>>
    /\ LoopFrame

\* one turn of the loop over sourceDlls (deployer.ts:310-340)
HandleInstallFile ==
  \E id \in HandlerIds :
    /\ At(id, "install", "file")
    /\ LET h == loop.handlers[id]
           dllName == h.locals.list[h.locals.i].name
           afterBackup == IF shouldBackup(files, h.locals.m, dllName)
                          THEN renameSync(files, dllName, backupPathOf(dllName))
                          ELSE files
           afterCopy == [afterBackup EXCEPT ![dllName] = h.locals.list[h.locals.i].bytes]
       IN /\ files' = afterCopy
          /\ Advance(id, [h EXCEPT
               !.pc = IF h.locals.i + 1 > Len(h.locals.list) THEN "write" ELSE "file",
               !.locals.i = @ + 1,
               !.locals.deployedDlls = Append(@, deployedDll(afterCopy, dllName))])
    /\ UNCHANGED <<mfile, manifest>>
    /\ LoopFrame

\* deployer.ts:342-348 and the return of the handler
HandleInstallWrite ==
  \E id \in HandlerIds :
    /\ At(id, "install", "write")
    /\ LET h == loop.handlers[id]
           otherDlls == filterDlls(h.locals.m.dlls, h.req.component, FALSE)
       IN /\ mfile' = "ok"
          /\ manifest' = [h.locals.m EXCEPT !.dlls = otherDlls \o h.locals.deployedDlls]
          /\ Advance(id, [h EXCEPT !.pc = "done", !.result = [success |-> TRUE]])
    /\ UNCHANGED files
    /\ LoopFrame

\* 'dxvk:uninstall' up to the loop of uninstallEngine (deployer.ts:358-372)
HandleUninstallEnter ==
  \E id \in HandlerIds :
    /\ At(id, "uninstall", "enter")
    /\ LET h == loop.handlers[id]
           dllsToRemove == filterDlls(readManifest(Dir).dlls, h.req.component, TRUE)
       IN IF ~manifestReadable(Dir)
          THEN Advance(id, [h EXCEPT !.pc = "return", !.result = [success |-> FALSE]])
          ELSE Advance(id, [h EXCEPT
                 !.pc = IF dllsToRemove = <<>> THEN "manifest" ELSE "file",
                 !.locals = [m |-> readManifest(Dir), list |-> dllsToRemove,
                             i |-> 1, deployedDlls |-> <<>>]])
    /\ UNCHANGED <<files, mfile, manifest>>
    /\ LoopFrame

\* one turn of the loop over dllsToRemove (deployer.ts:375-388)
HandleUninstallFile ==
  \E id \in HandlerIds :
    /\ At(id, "uninstall", "file")
    /\ LET h == loop.handlers[id]
           dll == h.locals.list[h.locals.i]
       IN /\ files' = restoreBackup(removeDll(files, dll), dll)
          /\ Advance(id, [h EXCEPT
               !.pc = IF h.locals.i + 1 > Len(h.locals.list) THEN "manifest" ELSE "file",
               !.locals.i = @ + 1])
    /\ UNCHANGED <<mfile, manifest>>
    /\ LoopFrame

\* "Handle manifest updates" and return true (deployer.ts:390-426)
HandleUninstallManifest ==
  \E id \in HandlerIds :
    /\ At(id, "uninstall", "manifest")
    /\ LET h == loop.handlers[id]
       IN /\ SetDir(updateManifest(Dir, h.locals.m, h.req.component))
          /\ Advance(id, [h EXCEPT !.pc = "return", !.result = [success |-> TRUE]])
    /\ LoopFrame

\* the continuation of 'dxvk:uninstall': return { success } (main.ts:456)
HandleUninstallReturn ==
  \E id \in HandlerIds :
    /\ At(id, "uninstall", "return")
    /\ Advance(id, [loop.handlers[id] EXCEPT !.pc = "done"])
    /\ UNCHANGED <<files, mfile, manifest>>
    /\ LoopFrame

\* 'dxvk:checkStatus': isDxvkInstalled (main.ts:469-472)
HandleCheckInstalled ==
  \E id \in HandlerIds :
    /\ At(id, "check", "enter")
    /\ LET h == loop.handlers[id]
       IN IF ~manifestReadable(Dir)
          THEN Advance(id, [h EXCEPT !.pc = "done", !.result = [installed |-> FALSE]])
          ELSE Advance(id, [h EXCEPT !.pc = "version"])
    /\ UNCHANGED <<files, mfile, manifest>>
    /\ LoopFrame

\* getInstalledVersion (main.ts:474)
HandleCheckVersion ==
  \E id \in HandlerIds :
    /\ At(id, "check", "version")
    /\ Advance(id, [loop.handlers[id] EXCEPT
                      !.pc = "integrity", !.locals.m = readManifest(Dir)])
    /\ UNCHANGED <<files, mfile, manifest>>
    /\ LoopFrame

\* checkIntegrity and the returned object (main.ts:475-482)
HandleCheckIntegrity ==
  \E id \in HandlerIds :
    /\ At(id, "check", "integrity")
    /\ LET h == loop.handlers[id]
       IN Advance(id, [h EXCEPT
            !.pc = "done",
            !.result = [installed |-> TRUE,
                        version |-> h.locals.m.engineVersion,
                        fork |-> h.locals.m.engineFork,
                        integrity |-> checkIntegrity(Dir, "all")]])
    /\ UNCHANGED <<files, mfile, manifest>>
    /\ LoopFrame

LoopNext ==
  \/ HandleInstallEnter
  \/ HandleInstallFile
  \/ HandleInstallWrite
  \/ HandleUninstallEnter
  \/ HandleUninstallFile
  \/ HandleUninstallManifest
  \/ HandleUninstallReturn
  \/ HandleCheckInstalled
  \/ HandleCheckVersion
  \/ HandleCheckIntegrity

LoopSpec == LoopInit /\ [][LoopNext]_vars

TypeOK ==
  /\ mfile \in {"absent", "corrupt", "ok"}
  /\ mfile # "ok" => manifest = NoManifest
  /\ last.pre.mfile \in {"absent", "corrupt", "ok"}

(***************************************************************************)
(* The read-only queries, applied to a directory as found on disk          *)
(***************************************************************************)
\* bytes of the installed copy of a name
InstalledBytes(name) ==
  IF toLowerCase(name) \in vkd3dNames THEN CacheBytes("vkd3d", "2.13", "x64")
  ELSE CacheBytes("official", "2.7", "x64")

\* the name lists a manifest file may hold: every order of every set of names
DllLists ==
  {l \in UNION {[1..n -> DllNames] : n \in 0..Cardinality(DllNames)} :
     \A i, j \in DOMAIN l : i # j => l[i] # l[j]}

\* a parsed manifest file whose dlls list names `names', in that order
ManifestOnDisk(names) ==
  LET families == {IF isTargetDll("vkd3d", names[i]) THEN "vkd3d" ELSE "dxvk" :
                     i \in DOMAIN names}
  IN [gameId |-> GameId, engineVersion |-> "2.7", engineFork |-> "official",
      architecture |-> "64",
      dlls |-> [i \in DOMAIN names |->
                  [name |-> names[i], hash |-> hashOf(InstalledBytes(names[i])),
                   backupPath |-> NoPath]],
      hasComponents |-> TRUE,
      components |-> [c \in families |->
                        IF c = "vkd3d" THEN [version |-> "2.13", fork |-> "vkd3d"]
                        ELSE [version |-> "2.7", fork |-> "official"]],
      configPath |-> NoPath]

QueryInit ==
  /\ \E present \in SUBSET KnownNames, tampered \in SUBSET DllNames :
        files = [p \in Paths |->
                   IF p \in tampered THEN TAMPERED
                   ELSE IF p \in present THEN InstalledBytes(p)
                   ELSE Absent]
  /\ \/ mfile \in {"absent", "corrupt"} /\ manifest = NoManifest
     \/ mfile = "ok" /\ \E names \in DllLists : manifest = ManifestOnDisk(names)
  /\ last = [op |-> "none", pre |-> Dir]
  /\ origin = [c \in Components |-> NotStarted]
  /\ ops = 0
  /\ PeUnused /\ CacheUnused /\ DiskUnused /\ CallUnused /\ LoopUnused

\* checkIntegrity as called by 'dxvk:checkStatus' (unscoped) and by the
\* analysis of a game (scoped)
CheckIntegrity ==
  \E component \in Scopes :
    /\ last' = [op |-> "checkIntegrity", component |-> component,
                result |-> checkIntegrity(Dir, component), pre |-> Dir]
    /\ UNCHANGED <<files, mfile, manifest, origin, ops, exe, pe, cache, disk, solo, call, loop>>

\* ipcMain 'dxvk:detectManual'
DetectManualInstallation ==
  /\ last' = [op |-> "detectManualInstallation",
              result |-> detectManualInstallation(Dir), pre |-> Dir]
  /\ UNCHANGED <<files, mfile, manifest, origin, ops, exe, pe, cache, disk, solo, call, loop>>

QueryNext ==
  \/ CheckIntegrity
  \/ DetectManualInstallation

QuerySpec == QueryInit /\ [][QueryNext]_vars

(***************************************************************************)
(* Several game directories on one disk                                    *)
(***************************************************************************)
\* number of calls that may change a directory in one behaviour
MaxLibraryOps == 4

GamePaths == {"A", "B"}

\* requests and faults of the calls on the library
LibraryRequests ==
  { <<"official", "2.7", "64">>, <<"vkd3d", "2.13", "64">>,
    <<"official", "2.7", "unknown">> }

LibraryFaults == {NoFault, [at |-> 0, op |-> "write"]}

gameIdOf(gamePath) == IF gamePath = "A" THEN "game-1" ELSE "game-2"

ManifestName == "dxvk_studio_manifest.json"

\* path.join(gamePath, name), kept as its two parts
join(gamePath, name) == <<gamePath, name>>

\* a manifest path that is not below the game directory
getManifestPath_shared(gamePath) == <<".", ManifestName>>

getManifestPath(gamePath) == join(gamePath, ManifestName)

DiskPaths == {join(g, n) : g \in GamePaths, n \in Paths}

ManifestPaths == {getManifestPath(g) : g \in GamePaths}

\* the directory the calls on gamePath see: every path they build is
\* join(gamePath, name) or getManifestPath(gamePath)
mount(dk, gamePath) ==
  MkDir([n \in Paths |-> dk.files[join(gamePath, n)]],
        dk.manifests[getManifestPath(gamePath)].mfile,
        dk.manifests[getManifestPath(gamePath)].manifest)

\* the disk after a call on gamePath has left its directory as d
store(dk, gamePath, d) ==
  [files |-> [p \in DOMAIN dk.files |->
                IF \E n \in Paths : p = join(gamePath, n)
                THEN d.files[p[2]]
                ELSE dk.files[p]],
   manifests |-> [dk.manifests EXCEPT ![getManifestPath(gamePath)] =
                    [mfile |-> d.mfile, manifest |-> d.manifest]]]

LibraryInit ==
  /\ \E shipped \in [GamePaths -> SUBSET ShippedNames] :
        disk = [files |-> [p \in DiskPaths |->
                             IF \E g \in GamePaths : \E n \in shipped[g] : p = join(g, n)
                             THEN ORIGINAL ELSE Absent],
                manifests |-> [p \in ManifestPaths |->
                                 [mfile |-> "absent", manifest |-> NoManifest]]]
  /\ solo = [g \in GamePaths |-> mount(disk, g)]
  /\ files = NoFiles /\ mfile = "absent" /\ manifest = NoManifest
  /\ last = [op |-> "none", pre |-> Dir]
  /\ origin = [c \in Components |-> NotStarted]
  /\ ops = 0
  /\ PeUnused /\ CacheUnused /\ CallUnused /\ LoopUnused

LibraryFrame == UNCHANGED <<files, mfile, manifest, origin, exe, pe, cache, call, loop>>

\* 'dxvk:install' with a gamePath
InstallAt ==
  \E g \in GamePaths, req \in LibraryRequests, fault \in LibraryFaults :
    LET r  == installEngine(mount(disk, g), gameIdOf(g), req[1], req[2], req[3], fault)
        r1 == installEngine(solo[g], gameIdOf(g), req[1], req[2], req[3], fault)
    IN /\ ops < MaxLibraryOps
       /\ ops' = ops + 1
       /\ disk' = store(disk, g, r.dir)
       /\ solo' = [solo EXCEPT ![g] = r1.dir]
       /\ last' = [op |-> "install", gamePath |-> g, result |-> ~r.thrown,
                   alone |-> ~r1.thrown, pre |-> Dir]
       /\ LibraryFrame

\* 'dxvk:uninstall' with a gamePath
UninstallAt ==
  \E g \in GamePaths, component \in Scopes :
    LET r  == uninstallEngine(mount(disk, g), component)
        r1 == uninstallEngine(solo[g], component)
    IN /\ ops < MaxLibraryOps
       /\ ops' = ops + 1
       /\ disk' = store(disk, g, r.dir)
       /\ solo' = [solo EXCEPT ![g] = r1.dir]
       /\ last' = [op |-> "uninstall", gamePath |-> g, result |-> r.result,
                   alone |-> r1.result, pre |-> Dir]
       /\ LibraryFrame

\* 'dxvk:checkStatus' with a gamePath
CheckAt ==
  \E g \in GamePaths, component \in Scopes :
    /\ last' = [op |-> "checkIntegrity", gamePath |-> g,
                result |-> checkIntegrity(mount(disk, g), component),
                alone |-> checkIntegrity(solo[g], component), pre |-> Dir]
    /\ UNCHANGED <<disk, solo, ops>>
    /\ LibraryFrame

LibraryNext ==
  \/ InstallAt
  \/ UninstallAt
  \/ CheckAt

LibrarySpec == LibraryInit /\ [][LibraryNext]_vars

(***************************************************************************)
(* The queries as the filesystem calls they make.  Each query is modelled  *)
(* by the list of fs calls it performs on the directory it finds, in the   *)
(* order of the code; the directory it leaves is the one those calls leave.*)
(***************************************************************************)
fsCall(fn, path) == [fn |-> fn, path |-> path]

ReadingCalls == {"existsSync", "readFileSync"}

\* the directory after one fs call
afterCall(d, c) ==
  CASE c.fn \in ReadingCalls -> d
    [] c.fn = "rmSync" ->
         IF c.path = ManifestName THEN removeManifest(d)
         ELSE [d EXCEPT !.files = rmSync(d.files, c.path)]

RECURSIVE afterCalls(_, _)
afterCalls(d, trace) ==
  IF trace = <<>> THEN d ELSE afterCalls(afterCall(d, Head(trace)), Tail(trace))

\* a readManifest that removes a manifest file it cannot parse
readManifestCalls_discardCorrupt(d) ==
  IF d.mfile = "absent" THEN <<fsCall("existsSync", ManifestName)>>
  ELSE IF d.mfile = "corrupt"
  THEN <<fsCall("existsSync", ManifestName), fsCall("readFileSync", ManifestName),
         fsCall("rmSync", ManifestName)>>
  ELSE <<fsCall("existsSync", ManifestName), fsCall("readFileSync", ManifestName)>>

\* readManifest (deployer.ts:46-59): existsSync, then readFileSync inside a
\* try whose catch returns null
readManifestCalls(d) ==
  IF d.mfile = "absent" THEN <<fsCall("existsSync", ManifestName)>>
  ELSE <<fsCall("existsSync", ManifestName), fsCall("readFileSync", ManifestName)>>

\* the loop of checkIntegrity (deployer.ts:213-224): existsSync, then
\* hashFile, up to the first entry that is missing or differs
RECURSIVE scanCalls(_, _)
scanCalls(d, targetDlls) ==
  IF targetDlls = <<>> THEN <<>>
  ELSE IF ~existsSync(d.files, Head(targetDlls).name)
  THEN <<fsCall("existsSync", Head(targetDlls).name)>>
  ELSE <<fsCall("existsSync", Head(targetDlls).name),
         fsCall("readFileSync", Head(targetDlls).name)>>
         \o (IF hashFile(d.files, Head(targetDlls).name) # Head(targetDlls).hash
             THEN <<>> ELSE scanCalls(d, Tail(targetDlls)))

checkIntegrityCalls(d, component) ==
  readManifestCalls(d) \o
    (IF ~manifestReadable(d) THEN <<>>
     ELSE LET targetDlls == filterDlls(readManifest(d).dlls, component, TRUE)
          IN IF component # "all" /\ targetDlls = <<>> THEN <<>>
             ELSE scanCalls(d, targetDlls))

\* detectManualInstallation (deployer.ts:120-149)
detectManualCalls(d) ==
  readManifestCalls(d) \o
    (IF manifestOwnsFiles(d) THEN <<>>
     ELSE [i \in 1..Len(ALL_DXVK_DLLS \o ALL_VKD3D_DLLS) |->
             fsCall("existsSync", (ALL_DXVK_DLLS \o ALL_VKD3D_DLLS)[i])])

\* getInstalledVersion (deployer.ts:170-181)
getInstalledVersion(d) ==
  IF ~manifestReadable(d) THEN "null"
  ELSE [version |-> readManifest(d).engineVersion, fork |-> readManifest(d).engineFork]

\* directories a query may find: any of the payload files, a backup and
\* dxvk.conf present, tracked files altered, the manifest absent,
\* unparseable or listing any names
ReadInit ==
  /\ \E present \in SUBSET (DllNames \cup {ConfName, backupPathOf("d3d11.dll")}),
        tampered \in SUBSET DllNames :
        files = [p \in Paths |->
                   IF p \in tampered THEN TAMPERED
                   ELSE IF p \in present
                        THEN (IF p \in DllNames THEN InstalledBytes(p)
                              ELSE IF p = ConfName THEN GENERATED ELSE ORIGINAL)
                   ELSE Absent]
  /\ \/ mfile \in {"absent", "corrupt"} /\ manifest = NoManifest
     \/ mfile = "ok" /\ \E names \in DllLists : manifest = ManifestOnDisk(names)
  /\ last = [op |-> "none", pre |-> Dir]
  /\ origin = [c \in Components |-> NotStarted]
  /\ ops = 0
  /\ PeUnused /\ CacheUnused /\ DiskUnused /\ CallUnused /\ LoopUnused

\* the value a query returned and the calls it made
Answered(op, component, result, trace) ==
  /\ last' = [op |-> op, component |-> component, result |-> result,
              calls |-> trace, pre |-> Dir]
  /\ UNCHANGED <<origin, ops>>
  /\ UNCHANGED auxVars

QueryReadManifest ==
  /\ SetDir(afterCalls(Dir, readManifestCalls(Dir)))
  /\ Answered("readManifest", "",
              IF manifestReadable(Dir) THEN readManifest(Dir) ELSE "null",
              readManifestCalls(Dir))

QueryIsDxvkInstalled ==
  /\ SetDir(afterCalls(Dir, readManifestCalls(Dir)))
  /\ Answered("isDxvkInstalled", "", manifestReadable(Dir), readManifestCalls(Dir))

QueryGetInstalledVersion ==
  /\ SetDir(afterCalls(Dir, readManifestCalls(Dir)))
  /\ Answered("getInstalledVersion", "", getInstalledVersion(Dir),
              readManifestCalls(Dir))

QueryCheckIntegrity ==
  \E component \in Scopes :
    /\ SetDir(afterCalls(Dir, checkIntegrityCalls(Dir, component)))
    /\ Answered("checkIntegrity", component, checkIntegrity(Dir, component),
                checkIntegrityCalls(Dir, component))

QueryDetectManual ==
  /\ SetDir(afterCalls(Dir, detectManualCalls(Dir)))
  /\ Answered("detectManualInstallation", "", detectManualInstallation(Dir),
              detectManualCalls(Dir))

ReadNext ==
  \/ QueryReadManifest
  \/ QueryIsDxvkInstalled
  \/ QueryGetInstalledVersion
  \/ QueryCheckIntegrity
  \/ QueryDetectManual

ReadSpec == ReadInit /\ [][ReadNext]_vars

(***************************************************************************)
(* getEngineDlls, applied to a cached version as found on disk             *)
(***************************************************************************)
\* longest folder listing
MaxListing == 3

\* names a release archive unpacks into an architecture folder
ListedNames ==
  {"d3d11.dll", "dxgi.dll", "setup.txt", "D3D11.DLL", "d3d11.dll.bak_dxvk_studio"}

Listings ==
  {l \in UNION {[1..n -> ListedNames] : n \in 0..MaxListing} :
     \A i, j \in DOMAIN l : i # j => l[i] # l[j]}

FolderStates ==
  {NoFolder, [exists |-> TRUE, readable |-> FALSE, listing |-> <<>>]}
    \cup [exists : {TRUE}, readable : {TRUE}, listing : Listings]

CacheInit ==
  /\ cache \in [ArchFolders -> FolderStates]
  /\ files = NoFiles /\ mfile = "absent" /\ manifest = NoManifest
  /\ last = [op |-> "none", pre |-> Dir]
  /\ origin = [c \in Components |-> NotStarted]
  /\ ops = 0
  /\ PeUnused /\ DiskUnused /\ CallUnused /\ LoopUnused

\* getEngineDlls as called by installEngine (line 249)
GetEngineDlls ==
  \E architecture \in {"32", "64"} :
    /\ last' = [op |-> "getEngineDlls", architecture |-> architecture,
                result |-> engineDllsIn(cache, architecture),
                cache |-> cache, pre |-> Dir]
    /\ UNCHANGED <<files, mfile, manifest, origin, ops, exe, pe, cache, disk, solo, call, loop>>

CacheNext == GetEngineDlls

CacheSpec == CacheInit /\ [][CacheNext]_vars

(***************************************************************************)
(* isVersionCached and getCachedVersions, applied to the folder of a fork  *)
(* in the engine cache as found on disk                                    *)
(***************************************************************************)
\* names found in <engines>/<fork>
VersionNames == {"2.7.1", "2.6.1"}
EntryNames   == VersionNames \cup {"readme.txt"}

\* versions the callers ask for
AskedVersions == VersionNames \cup {"99.99.99"}

\* files of a version folder, as the path below it
CachedFiles == {<<"x64", "dxgi.dll">>, <<"x32", "d3d9.dll">>, <<"x64", "d3d11.dll">>}

\* <engines>/<fork> does not exist
NoForkFolder == [exists |-> FALSE, readable |-> FALSE, entries |-> <<>>]

\* existsSync(join(getVersionPath(fork, version), archFolder, name))
existsInVersion(forkPath, version, archFolder, name) ==
  /\ forkPath.exists
  /\ \E i \in 1..Len(forkPath.entries) :
        /\ forkPath.entries[i].name = version
        /\ forkPath.entries[i].isDirectory
        /\ <<archFolder, name>> \in forkPath.entries[i].files

\* a test that asks for both files
isVersionCached_both(forkPath, version) ==
  /\ existsInVersion(forkPath, version, "x64", "dxgi.dll")
  /\ existsInVersion(forkPath, version, "x32", "d3d9.dll")

isVersionCached(forkPath, version) ==
  \/ existsInVersion(forkPath, version, "x64", "dxgi.dll")
  \/ existsInVersion(forkPath, version, "x32", "d3d9.dll")

\* .filter(dirent => dirent.isDirectory()).map(dirent => dirent.name)
RECURSIVE directoryNames(_)
directoryNames(entries) ==
  IF entries = <<>> THEN <<>>
  ELSE IF Head(entries).isDirectory
       THEN <<Head(entries).name>> \o directoryNames(Tail(entries))
       ELSE directoryNames(Tail(entries))

getCachedVersions(forkPath) ==
  IF ~forkPath.exists THEN <<>>
  ELSE IF ~forkPath.readable THEN <<>>
  ELSE directoryNames(forkPath.entries)

\* a directory entry of the fork folder
Dirents ==
  [name : VersionNames, isDirectory : {TRUE}, files : SUBSET CachedFiles]
    \cup [name : {"readme.txt"}, isDirectory : {FALSE}, files : {{}}]

\* readdirSync returns every name once, in the order of the file system
DirentLists ==
  {l \in UNION {[1..n -> Dirents] : n \in 0..Cardinality(EntryNames)} :
     \A i, j \in DOMAIN l : i # j => l[i].name # l[j].name}

ForkFolders ==
  {NoForkFolder} \cup [exists : {TRUE}, readable : BOOLEAN, entries : DirentLists]

EnginesInit ==
  /\ cache \in ForkFolders
  /\ files = NoFiles /\ mfile = "absent" /\ manifest = NoManifest
  /\ last = [op |-> "none", pre |-> Dir]
  /\ origin = [c \in Components |-> NotStarted]
  /\ ops = 0
  /\ PeUnused /\ DiskUnused /\ CallUnused /\ LoopUnused

\* isVersionCached(fork, version)
IsVersionCached ==
  \E version \in AskedVersions :
    /\ last' = [op |-> "isVersionCached", version |-> version,
                result |-> isVersionCached(cache, version), pre |-> Dir]
    /\ UNCHANGED <<files, mfile, manifest, origin, ops, exe, pe, cache, disk, solo, call, loop>>

\* getCachedVersions(fork)
GetCachedVersions ==
  /\ last' = [op |-> "getCachedVersions", result |-> getCachedVersions(cache),
              pre |-> Dir]
  /\ UNCHANGED <<files, mfile, manifest, origin, ops, exe, pe, cache, disk, solo, call, loop>>

EnginesNext ==
  \/ IsVersionCached
  \/ GetCachedVersions

EnginesSpec == EnginesInit /\ [][EnginesNext]_vars

(***************************************************************************)
(* analyzeExecutable (electron/services/gog-scanner.ts)                    *)
(***************************************************************************)
PE_MACHINE_I386  == 332      \* 0x014c
PE_MACHINE_AMD64 == 34404    \* 0x8664

E_LFANEW == 60               \* 0x3C

MZ    == <<77, 90>>          \* 'MZ'
PESIG == <<80, 69, 0, 0>>    \* 'PE\0\0'

\* Buffer.readUInt16LE(0) and Buffer.readUInt32LE(0) of the bytes read
readUInt16LE(b) == b[1] + 256 * b[2]

readUInt32LE(b) == b[1] + 256 * b[2] + 65536 * b[3] + 16777216 * b[4]

\* a sanity check that only looks at the lower bound
peOffsetRejected_lowOnly(peOffset) == peOffset < 64

\* "Sanity check on PE offset" (line 131)
peOffsetRejected(peOffset) == peOffset < 64 \/ peOffset > 1024

\* a finally block that never closes
closeDue_never(fd) == FALSE

\* the guard of the finally block (line 178)
closeDue(fd) == fd # "null"

architectureOf(machineType) ==
  IF machineType = PE_MACHINE_I386 THEN "32"
  ELSE IF machineType = PE_MACHINE_AMD64 THEN "64"
  ELSE "unknown"

NoResult == [architecture |-> "", machineType |-> 0, isValid |-> FALSE, error |-> ""]

invalidResult(error) ==
  [architecture |-> "unknown", machineType |-> 0, isValid |-> FALSE, error |-> error]

validResult(machineType) ==
  [architecture |-> architectureOf(machineType), machineType |-> machineType,
   isValid |-> TRUE, error |-> ""]

\* the executables of the model: whether openSync succeeds, the bytes at
\* offset 0, at 0x3C, at the PE offset and behind the signature (zero where
\* the file is shorter), and the read that raises (0: none).  The offsets
\* stay below 2^31, the largest integer the checker computes with.
Executables ==
  {NoExe} \cup
  [openable : {TRUE},
   dos      : {MZ, <<90, 77>>, <<0, 0>>},
   lfanew   : {<<0, 0, 0, 0>>, <<63, 0, 0, 0>>, <<64, 0, 0, 0>>, <<128, 0, 0, 0>>,
               <<0, 4, 0, 0>>, <<1, 4, 0, 0>>, <<64, 0, 0, 127>>, <<0, 0, 1, 0>>},
   sig      : {PESIG, <<80, 69, 0, 1>>, <<78, 69, 0, 0>>},
   machine  : {<<76, 1>>, <<100, 134>>, <<1, 76>>, <<100, 170>>, <<0, 0>>},
   failAt   : 0..4]

PeInit ==
  /\ exe \in Executables
  /\ pe = [pc |-> "open", fd |-> "null", handle |-> "none", mode |-> "",
           opens |-> 0, closes |-> 0, badClose |-> FALSE, reads |-> <<>>,
           peOffset |-> 0, error |-> "", result |-> NoResult]
  /\ files = NoFiles /\ mfile = "absent" /\ manifest = NoManifest
  /\ last = [op |-> "none", pre |-> Dir]
  /\ origin = [c \in Components |-> NotStarted]
  /\ ops = 0
  /\ CacheUnused /\ DiskUnused /\ CallUnused /\ LoopUnused

PeFrame ==
  UNCHANGED <<files, mfile, manifest, last, origin, ops, exe, cache, disk, solo, call, loop>>

\* readBytesAt(fd, offset, length): the read is logged with the state of the handle
readBytesAt(p, offset) ==
  [p EXCEPT !.reads = Append(@, [offset |-> offset, handle |-> p.handle])]

\* fd = openSync(exePath, 'r')
AnalyzeOpen ==
  /\ pe.pc = "open"
  /\ pe' = IF exe.openable
           THEN [pe EXCEPT !.fd = "3", !.handle = "open", !.mode = "r",
                           !.opens = @ + 1, !.pc = "dosHeader"]
           ELSE [pe EXCEPT !.error = "ENOENT", !.pc = "catch"]
  /\ PeFrame

\* lines 116-124
AnalyzeDosHeader ==
  /\ pe.pc = "dosHeader"
  /\ LET p == readBytesAt(pe, 0)
     IN pe' = IF exe.failAt = 1 THEN [p EXCEPT !.error = "EIO", !.pc = "catch"]
              ELSE IF exe.dos # MZ
              THEN [p EXCEPT !.result = invalidResult("Not a valid PE file (missing MZ signature)"),
                             !.pc = "finally"]
              ELSE [p EXCEPT !.pc = "lfanew"]
  /\ PeFrame

\* lines 127-138
AnalyzeLfanew ==
  /\ pe.pc = "lfanew"
  /\ LET p == readBytesAt(pe, E_LFANEW)
         peOffset == readUInt32LE(exe.lfanew)
     IN pe' = IF exe.failAt = 2 THEN [p EXCEPT !.error = "EIO", !.pc = "catch"]
              ELSE IF peOffsetRejected(peOffset)
              THEN [p EXCEPT !.result = invalidResult("Invalid PE header offset"),
                             !.pc = "finally"]
              ELSE [p EXCEPT !.peOffset = peOffset, !.pc = "signature"]
  /\ PeFrame

\* lines 141-149
AnalyzeSignature ==
  /\ pe.pc = "signature"
  /\ LET p == readBytesAt(pe, pe.peOffset)
     IN pe' = IF exe.failAt = 3 THEN [p EXCEPT !.error = "EIO", !.pc = "catch"]
              ELSE IF exe.sig # PESIG
              THEN [p EXCEPT !.result = invalidResult("Invalid PE signature"),
                             !.pc = "finally"]
              ELSE [p EXCEPT !.pc = "machine"]
  /\ PeFrame

\* lines 152-168
AnalyzeMachine ==
  /\ pe.pc = "machine"
  /\ LET p == readBytesAt(pe, pe.peOffset + 4)
     IN pe' = IF exe.failAt = 4 THEN [p EXCEPT !.error = "EIO", !.pc = "catch"]
              ELSE [p EXCEPT !.result = validResult(readUInt16LE(exe.machine)),
                             !.pc = "finally"]
  /\ PeFrame

\* lines 170-176
AnalyzeCatch ==
  /\ pe.pc = "catch"
  /\ pe' = [pe EXCEPT !.result = invalidResult(pe.error), !.pc = "finally"]
  /\ PeFrame

\* lines 177-181: closeSync(fd) when fd is not null, then the result is returned
AnalyzeFinally ==
  /\ pe.pc = "finally"
  /\ pe' = IF closeDue(pe.fd)
           THEN [pe EXCEPT !.closes = @ + 1, !.handle = "closed",
                           !.badClose = @ \/ pe.handle # "open", !.pc = "done"]
           ELSE [pe EXCEPT !.pc = "done"]
  /\ PeFrame

PeNext ==
  \/ AnalyzeOpen
  \/ AnalyzeDosHeader
  \/ AnalyzeLfanew
  \/ AnalyzeSignature
  \/ AnalyzeMachine
  \/ AnalyzeCatch
  \/ AnalyzeFinally

PeSpec == PeInit /\ [][PeNext]_vars

(***************************************************************************)
(* Vocabulary of the properties                                            *)
(***************************************************************************)
Pre == last.pre

OtherComponent(c) == IF c = "dxvk" THEN "vkd3d" ELSE "dxvk"

\* the family recorded in the per-family map of a directory's manifest
Recorded(d, c) ==
  manifestReadable(d) /\ d.manifest.hasComponents /\ c \in DOMAIN d.manifest.components

\* the DeployedFile entries a scope selects
EntriesOf(d, scope) == filterDlls(readManifest(d).dlls, scope, TRUE)

EntrySet(d, scope) == {EntriesOf(d, scope)[i] : i \in 1..Len(EntriesOf(d, scope))}

PayloadNames(fork, version, architecture) ==
  {getEngineDlls(fork, version, architecture)[i].name :
     i \in 1..Len(getEngineDlls(fork, version, architecture))}

InstallOk   == last.op = "install" /\ last.ok
InstallFail == last.op = "install" /\ ~last.ok
UninstallOk == last.op = "uninstall" /\ last.ok

(***************************************************************************)
(* C1  Round trip.  After a successful installEngine into a directory that *)
(* had no manifest, uninstallEngine of the same family leaves exactly the  *)
(* files the directory had before the install, with the same bytes, and no *)
(* manifest.                                                               *)
(***************************************************************************)
C1_RoundTrip ==
  (InstallOk /\ Pre.mfile = "absent") =>
     LET u == uninstallEngine(Dir, last.component)
     IN /\ u.result
        /\ u.dir.files = Pre.files
        /\ u.dir.mfile = "absent"

(***************************************************************************)
(* C2  Family isolation.  An uninstall scoped to family A, in a directory  *)
(* where A and B are both recorded, leaves B's installed files, B's record *)
(* in components, B's DeployedFile entries and B's backup files unchanged; *)
(* checkIntegrity(B) is ok right after B's install and stays ok across the *)
(* uninstall of A.                                                         *)
(***************************************************************************)
C2_FamilyIsolation ==
  /\ InstallOk => checkIntegrity(Dir, last.component) = "ok"
  /\ (UninstallOk /\ last.component \in Components
        /\ Recorded(Pre, "dxvk") /\ Recorded(Pre, "vkd3d")) =>
       LET B == OtherComponent(last.component)
       IN /\ Recorded(Dir, B)
          /\ manifest.components[B] = Pre.manifest.components[B]
          /\ EntriesOf(Dir, B) = EntriesOf(Pre, B)
          /\ \A e \in EntrySet(Pre, B) :
                /\ files[e.name] = Pre.files[e.name]
                /\ files[backupPathOf(e.name)] = Pre.files[backupPathOf(e.name)]
          /\ checkIntegrity(Pre, B) = "ok" => checkIntegrity(Dir, B) = "ok"

C2_Witness ==
  /\ UninstallOk /\ last.component = "dxvk"
  /\ Recorded(Pre, "dxvk") /\ Recorded(Pre, "vkd3d")
  /\ checkIntegrity(Pre, "dxvk") = "ok"
  /\ checkIntegrity(Dir, "vkd3d") = "ok"
  /\ \E e \in EntrySet(Dir, "vkd3d") :
        e.backupPath # NoPath /\ existsSync(files, e.backupPath)
  /\ ~existsSync(files, "dxgi.dll")

(***************************************************************************)
(* C3  Idempotent re-install.  Right after a successful installEngine, the *)
(* same call again succeeds and yields the same DeployedFile entries       *)
(* (name, hash, backupPath), the same installed file contents and no       *)
(* backup file that was not there after the first call.                    *)
(***************************************************************************)
C3_IdempotentReinstall ==
  InstallOk =>
     LET r == installEngine(Dir, GameId, last.fork, last.version,
                            last.architecture, NoFault)
     IN /\ ~r.thrown
        /\ r.dir.manifest.dlls = manifest.dlls
        /\ r.dir.files = files

\* the state after the second of two identical installs over a shipped file
C3_Witness ==
  /\ InstallOk
  /\ Recorded(Pre, last.component)
  /\ Pre.manifest.components[last.component] =
        [version |-> last.version, fork |-> last.fork]
  /\ checkIntegrity(Pre, last.component) = "ok"
  /\ Pre.files = files
  /\ Pre.manifest.dlls = manifest.dlls
  /\ \E n \in PayloadNames(last.fork, last.version, last.architecture) :
        files[backupPathOf(n)] = ORIGINAL

(***************************************************************************)
(* C4  Integrity detection.  After a successful install checkIntegrity of  *)
(* the installed family is ok; from a state where it is ok, deleting one   *)
(* installed file makes it missing and overwriting one installed file with *)
(* different bytes makes it corrupt (scoped to the family and unscoped).   *)
(***************************************************************************)
FamilyOfName(name) == IF isTargetDll("vkd3d", name) THEN "vkd3d" ELSE "dxvk"

C4_IntegrityDetection ==
  /\ InstallOk =>
       /\ checkIntegrity(Dir, last.component) = "ok"
       /\ checkIntegrity(Pre, OtherComponent(last.component)) \in {"ok", "not_installed"}
            => checkIntegrity(Dir, "all") = "ok"
  /\ \A scope \in {FamilyOfName(last.name), "all"} :
       (last.op \in {"extDelete", "extOverwrite"} /\ checkIntegrity(Pre, scope) = "ok") =>
          checkIntegrity(Dir, scope) =
             IF last.op = "extDelete" THEN "missing" ELSE "corrupt"

C4_Witness ==
  /\ last.op = "extOverwrite"
  /\ last.name = "dxgi.dll"
  /\ checkIntegrity(Pre, "all") = "ok"
  /\ checkIntegrity(Dir, "dxvk") = "corrupt"
  /\ Recorded(Dir, "vkd3d")

(***************************************************************************)
(* C5  Input rejection.  installEngine with architecture unknown, or with  *)
(* an empty payload listing, throws and leaves every file of the           *)
(* directory, the manifest included, as it was.                            *)
(***************************************************************************)
C5_InputRejection ==
  (last.op = "install"
     /\ (last.architecture = "unknown"
          \/ Len(getEngineDlls(last.fork, last.version, last.architecture)) = 0)) =>
    /\ ~last.ok
    /\ Dir = Pre

C5_Witness ==
  /\ last.op = "install" /\ last.architecture = "unknown" /\ ~last.ok
  /\ mfile = "ok"
  /\ \E n \in DllNames : existsSync(files, backupPathOf(n))

(***************************************************************************)
(* C6  No silent overwrite.  After a successful install, every file that   *)
(* existed under a payload name before the call and was not tracked by the *)
(* manifest has its bytes in <name>.bak_dxvk_studio.                       *)
(***************************************************************************)
C6_NoSilentOverwrite ==
  InstallOk =>
    \A n \in PayloadNames(last.fork, last.version, last.architecture) :
      (existsSync(Pre.files, n) /\ ~isTrackedName(readManifest(Pre), n)) =>
         files[backupPathOf(n)] = Pre.files[n]

(***************************************************************************)
(* C7  Partial failure.  After an install that failed, every file that     *)
(* existed before the call and was not one the manifest tracked is still   *)
(* under its name with its bytes, or is back there after an uninstall      *)
(* (scoped to the family, or unscoped).                                    *)
(***************************************************************************)
C7_PartialFailureRecoverable ==
  InstallFail =>
    \A p \in Paths :
      (existsSync(Pre.files, p) /\ ~isTrackedName(readManifest(Pre), p)) =>
         \/ files[p] = Pre.files[p]
         \/ uninstallEngine(Dir, last.component).dir.files[p] = Pre.files[p]
         \/ uninstallEngine(Dir, "all").dir.files[p] = Pre.files[p]

(***************************************************************************)
(* C8  Single-generation backup.  While a family is installed (from the    *)
(* first Install call of the family until its uninstall), a backup file of *)
(* one of its names holds the bytes the file of that name had before that  *)
(* first call (or is a backup file that was already there); an install     *)
(* never replaces an existing backup, takes none of a tracked file, and    *)
(* records the backup in backupPath exactly when the backup file exists.   *)
(***************************************************************************)
C8_SingleGenerationBackup ==
  /\ \A c \in Components, n \in DllNames :
       (origin[c].started /\ isTargetDll(c, n) /\ existsSync(files, backupPathOf(n))) =>
          \/ files[backupPathOf(n)] = origin[c].files[n]
          \/ files[backupPathOf(n)] = origin[c].files[backupPathOf(n)]
  /\ last.op = "install" =>
       \A n \in DllNames :
         /\ existsSync(Pre.files, backupPathOf(n)) =>
              files[backupPathOf(n)] = Pre.files[backupPathOf(n)]
         /\ isTrackedName(readManifest(Pre), n) =>
              files[backupPathOf(n)] = Pre.files[backupPathOf(n)]
  /\ InstallOk =>
       \A e \in EntrySet(Dir, last.component) :
         e.backupPath = IF existsSync(files, backupPathOf(e.name))
                        THEN backupPathOf(e.name) ELSE NoPath

(***************************************************************************)
(* C9  Uninstall always works.  On a directory with a readable manifest    *)
(* (all files in place, or some tracked files deleted or overwritten)      *)
(* uninstallEngine returns true; afterwards every tracked file of the      *)
(* scope whose recorded backup existed holds the backup's bytes and the    *)
(* backup is gone, and every other tracked file of the scope is gone.      *)
(***************************************************************************)
C9_UninstallAlwaysWorks ==
  (last.op = "uninstall" /\ manifestReadable(Pre)) =>
    /\ last.ok
    /\ \A e \in EntrySet(Pre, last.component) :
          IF e.backupPath # NoPath /\ existsSync(Pre.files, e.backupPath)
          THEN /\ files[e.name] = Pre.files[e.backupPath]
               /\ ~existsSync(files, e.backupPath)
          ELSE ~existsSync(files, e.name)

\* an uninstall from Degraded: a tracked file was missing, a backup came back
C9_Witness ==
  /\ UninstallOk
  /\ checkIntegrity(Pre, last.component) = "missing"
  /\ \E e \in EntrySet(Pre, last.component) :
        /\ e.backupPath # NoPath
        /\ files[e.name] = ORIGINAL
        /\ ~existsSync(files, e.backupPath)
  /\ \E e \in EntrySet(Pre, last.component) :
        existsSync(Pre.files, e.name) /\ ~existsSync(files, e.name)

(***************************************************************************)
(* C10  Uninstall outcome.  After a successful uninstall scoped to F that  *)
(* leaves another family recorded, the manifest exists, holds no entry and *)
(* no components record of F, and checkIntegrity(F) is not_installed;      *)
(* after an uninstall that leaves no family recorded, or an unscoped one,  *)
(* the manifest is gone and checkIntegrity is not_installed for every      *)
(* scope.                                                                  *)
(***************************************************************************)
RemainingAfter(d, scope) ==
  IF scope = "all" \/ ~d.manifest.hasComponents THEN {}
  ELSE (DOMAIN d.manifest.components) \ {scope}

C10_UninstallOutcome ==
  UninstallOk =>
    IF RemainingAfter(Pre, last.component) # {}
    THEN /\ mfile = "ok"
         /\ EntriesOf(Dir, last.component) = <<>>
         /\ ~Recorded(Dir, last.component)
         /\ checkIntegrity(Dir, last.component) = "not_installed"
    ELSE /\ mfile = "absent"
         /\ \A scope \in Scopes : checkIntegrity(Dir, scope) = "not_installed"

C10_Witness ==
  /\ UninstallOk /\ last.component = "vkd3d"
  /\ Recorded(Pre, "vkd3d") /\ Recorded(Pre, "dxvk")
  /\ mfile = "ok"
  /\ checkIntegrity(Dir, "vkd3d") = "not_installed"
  /\ checkIntegrity(Dir, "dxvk") = "ok"

(***************************************************************************)
(* C11  Degraded to Active by re-install.  Whatever the state of the       *)
(* family before the call (not recorded, intact, or with tracked files     *)
(* deleted or overwritten from outside), right after a successful          *)
(* installEngine the family is recorded with the installed version, its    *)
(* entries are exactly the payload's names, every one of its files exists  *)
(* with the recorded hash and checkIntegrity of the family returns ok.     *)
(***************************************************************************)
C11_ReinstallActivates ==
  InstallOk =>
    LET c == last.component
    IN /\ Recorded(Dir, c)
       /\ manifest.components[c] = [version |-> last.version, fork |-> last.fork]
       /\ {e.name : e \in EntrySet(Dir, c)} =
             PayloadNames(last.fork, last.version, last.architecture)
       /\ \A e \in EntrySet(Dir, c) :
             /\ existsSync(files, e.name)
             /\ hashFile(files, e.name) = e.hash
       /\ checkIntegrity(Dir, c) = "ok"

\* a re-install with another version over a family that had lost a file
C11_Witness ==
  /\ InstallOk
  /\ Recorded(Pre, last.component)
  /\ Pre.manifest.components[last.component].version # last.version
  /\ checkIntegrity(Pre, last.component) = "missing"
  /\ checkIntegrity(Dir, last.component) = "ok"

Defective(d, e) == ~existsSync(d.files, e.name) \/ hashFile(d.files, e.name) # e.hash

C13_FirstDefectDecides ==
  (last.op = "checkIntegrity" /\ manifestReadable(Dir)
     /\ EntriesOf(Dir, last.component) # <<>>) =>
    LET sel  == EntriesOf(Dir, last.component)
        bad  == {i \in 1..Len(sel) : Defective(Dir, sel[i])}
    IN IF bad = {} THEN last.result = "ok"
       ELSE LET k == CHOOSE i \in bad : \A j \in bad : i <= j
            IN last.result = IF existsSync(files, sel[k].name) THEN "corrupt"
                             ELSE "missing"

\* an altered file listed before a deleted one: the result is corrupt
C13_Witness ==
  /\ last.op = "checkIntegrity" /\ last.component = "dxvk"
  /\ last.result = "corrupt"
  /\ Len(EntriesOf(Dir, "dxvk")) = 2
  /\ files[EntriesOf(Dir, "dxvk")[1].name] = TAMPERED
  /\ ~existsSync(files, EntriesOf(Dir, "dxvk")[2].name)
  /\ EntriesOf(Dir, "all")[1].name = "d3d12.dll"

(***************************************************************************)
(* C14  A manifest file that does not parse is treated as no manifest:     *)
(* readManifest gives null, checkIntegrity returns not_installed for every *)
(* scope, uninstallEngine returns false and changes nothing; and a         *)
(* successful install from that state has renamed every file that existed  *)
(* under a payload name to <name>.bak_dxvk_studio before copying.          *)
(***************************************************************************)
C14_CorruptIsAbsent ==
  /\ mfile = "corrupt" =>
       /\ ~manifestReadable(Dir)
       /\ readManifest(Dir) = NoManifest
       /\ \A scope \in Scopes :
             /\ checkIntegrity(Dir, scope) = "not_installed"
             /\ uninstallEngine(Dir, scope) = [dir |-> Dir, result |-> FALSE]
  /\ (last.op = "uninstall" /\ Pre.mfile = "corrupt") => (~last.ok /\ Dir = Pre)

C14_InstallBacksUp ==
  (InstallOk /\ Pre.mfile = "corrupt") =>
    \A n \in PayloadNames(last.fork, last.version, last.architecture) :
      existsSync(Pre.files, n) => files[backupPathOf(n)] = Pre.files[n]

C14_CorruptManifest == C14_CorruptIsAbsent /\ C14_InstallBacksUp

(***************************************************************************)
(* C18  Backward-compatible fields.  Every manifest on disk has the        *)
(* top-level engineVersion and engineFork populated; a successful install  *)
(* sets them to its version and fork, and a scoped uninstall or            *)
(* writeConfig that writes the manifest leaves them as they were, so they  *)
(* are those of the most recent successful install.  The flat dlls list    *)
(* holds the entries of every recorded family: none of a recorded family   *)
(* is missing from it, an install keeps the other family's entries and a   *)
(* writeConfig keeps the list.                                             *)
(***************************************************************************)
C18_LegacyFields ==
  /\ mfile = "ok" =>
       /\ manifest.engineVersion # "" /\ manifest.engineFork # ""
       /\ manifest.hasComponents =>
            \A c \in DOMAIN manifest.components : EntriesOf(Dir, c) # <<>>
  /\ InstallOk =>
       /\ manifest.engineVersion = last.version
       /\ manifest.engineFork = last.fork
       /\ EntriesOf(Dir, OtherComponent(last.component))
            = EntriesOf(Pre, OtherComponent(last.component))
  /\ (mfile = "ok" /\ ~InstallOk) =>
       /\ Pre.mfile = "ok"
       /\ manifest.engineVersion = Pre.manifest.engineVersion
       /\ manifest.engineFork = Pre.manifest.engineFork
  /\ (mfile = "ok" /\ last.op = "writeConfig") =>
       manifest.dlls = Pre.manifest.dlls

\* a manifest written by a scoped uninstall after a writeConfig: the
\* top-level fields still name the last install, of the family just removed
C18_Witness ==
  /\ UninstallOk /\ last.component = "vkd3d"
  /\ mfile = "ok"
  /\ manifest.configPath = ConfName
  /\ manifest.engineFork = "vkd3d"
  /\ DOMAIN manifest.components = {"dxvk"}
  /\ Len(manifest.dlls) = 2

(***************************************************************************)
(* C15  analyzeExecutable classifies by the header and always returns a    *)
(* result: isValid is true exactly when the file opens, every read         *)
(* succeeds, bytes 0-1 are 'MZ', the little-endian PE offset at 0x3C is in *)
(* 64..1024 and the signature there is 'PE\0\0'; then architecture is '32' *)
(* for machine code 0x014c, '64' for 0x8664 and unknown for any other      *)
(* code; otherwise architecture is unknown, isValid false and an error     *)
(* string is set.                                                          *)
(***************************************************************************)
HeaderWellFormed ==
  /\ exe.openable
  /\ exe.failAt = 0
  /\ exe.dos = <<77, 90>>
  /\ LET off == exe.lfanew[1] + exe.lfanew[2] * 256 + exe.lfanew[3] * 256 * 256
                  + exe.lfanew[4] * 256 * 256 * 256
     IN off >= 64 /\ off <= 1024
  /\ exe.sig = <<80, 69, 0, 0>>

C15_HeaderClassification ==
  pe.pc = "done" =>
    IF HeaderWellFormed
    THEN /\ pe.result.isValid
         /\ pe.result.error = ""
         /\ pe.result.architecture =
              CASE exe.machine = <<76, 1>>    -> "32"
                [] exe.machine = <<100, 134>> -> "64"
                [] OTHER -> "unknown"
    ELSE /\ ~pe.result.isValid
         /\ pe.result.architecture = "unknown"
         /\ pe.result.error # ""

\* a valid 64-bit header whose PE offset is the largest accepted one
C15_Witness ==
  /\ pe.pc = "done"
  /\ pe.result.isValid /\ pe.result.architecture = "64"
  /\ pe.peOffset = 1024
  /\ Len(pe.reads) = 4

(***************************************************************************)
(* C16  analyzeExecutable opens at most one handle, read-only, and closes  *)
(* it exactly once on every exit path: when it returns, the handle is      *)
(* closed if and only if the open succeeded, no close was attempted        *)
(* without an open handle, every read used the open handle, and the only   *)
(* offsets read are 0, 0x3C and, after the bound check passed, the PE      *)
(* offset and the PE offset plus 4.                                        *)
(***************************************************************************)
C16_HandleReleased ==
  /\ pe.opens <= 1
  /\ pe.closes <= pe.opens
  /\ ~pe.badClose
  /\ pe.mode \in {"", "r"}
  /\ \A i \in 1..Len(pe.reads) :
       /\ pe.reads[i].handle = "open"
       /\ i = 1 => pe.reads[i].offset = 0
       /\ i = 2 => pe.reads[i].offset = 60
       /\ i >= 3 => (pe.reads[i].offset >= 64 /\ pe.reads[i].offset <= 1028)
  /\ pe.pc = "done" =>
       /\ pe.opens = (IF exe.openable THEN 1 ELSE 0)
       /\ pe.closes = pe.opens
       /\ pe.handle # "open"

\* the read of the signature raised: the handle was still closed once
C16_Witness ==
  /\ pe.pc = "done"
  /\ exe.openable /\ exe.failAt = 3
  /\ Len(pe.reads) = 3
  /\ pe.closes = 1 /\ pe.handle = "closed"
  /\ ~pe.result.isValid

C19_DirectoriesIndependent ==
  /\ \A g \in GamePaths : mount(disk, g) = solo[g]
  /\ last.op \in {"install", "uninstall", "checkIntegrity"} =>
       last.result = last.alone

\* a scoped uninstall on A while B holds another engine and a backup
C19_Witness ==
  /\ last.op = "uninstall" /\ last.gamePath = "A" /\ last.result
  /\ solo["A"].mfile = "absent"
  /\ solo["B"].mfile = "ok"
  /\ solo["B"].manifest.engineFork = "vkd3d"
  /\ solo["B"].manifest.gameId = "game-2"
  /\ solo["B"].files["d3d12.dll.bak_dxvk_studio"] = ORIGINAL
  /\ solo["A"].files["d3d12.dll"] = ORIGINAL

(***************************************************************************)
(* C20  detectManualInstallation reports detected = false with empty lists *)
(* whenever a manifest can be read; with no manifest, or one that does not *)
(* parse, it lists exactly the known DXVK names and the known VKD3D names  *)
(* that exist in the directory, each once, found is true per family iff    *)
(* its list is nonempty and detected is true iff either is found.          *)
(***************************************************************************)
SeqToSet(l) == {l[i] : i \in 1..Len(l)}

C20_ManualDetection ==
  last.op = "detectManualInstallation" =>
    LET r == last.result
        knownDxvk  == {"d3d9.dll", "d3d10.dll", "d3d10_1.dll", "d3d10core.dll",
                       "d3d11.dll", "dxgi.dll"}
        knownVkd3d == {"d3d12.dll", "d3d12core.dll"}
    IN IF mfile = "ok"
       THEN /\ ~r.detected
            /\ ~r.dxvk.found /\ r.dxvk.dlls = <<>>
            /\ ~r.vkd3d.found /\ r.vkd3d.dlls = <<>>
       ELSE /\ SeqToSet(r.dxvk.dlls) = {n \in knownDxvk : files[n] # Absent}
            /\ Len(r.dxvk.dlls) = Cardinality(SeqToSet(r.dxvk.dlls))
            /\ SeqToSet(r.vkd3d.dlls) = {n \in knownVkd3d : files[n] # Absent}
            /\ Len(r.vkd3d.dlls) = Cardinality(SeqToSet(r.vkd3d.dlls))
            /\ r.dxvk.found <=> r.dxvk.dlls # <<>>
            /\ r.vkd3d.found <=> r.vkd3d.dlls # <<>>
            /\ r.detected <=> (r.dxvk.found \/ r.vkd3d.found)

\* an unparseable manifest beside files of both families
C20_Witness ==
  /\ last.op = "detectManualInstallation"
  /\ mfile = "corrupt"
  /\ last.result.detected
  /\ last.result.dxvk.dlls = <<"d3d9.dll", "dxgi.dll">>
  /\ last.result.vkd3d.dlls = <<"d3d12core.dll">>
  /\ files["dxgi.dll"] = TAMPERED

(***************************************************************************)
(* C21  Distinguishable outcome.  installEngine either returns after it    *)
(* wrote the manifest, which then records the family, or throws and leaves *)
(* the manifest as it was; uninstallEngine returns false and changes       *)
(* nothing when no manifest can be read; and an uninstall scoped to a      *)
(* family the manifest has no record of does not return true.              *)
(***************************************************************************)
C21_DistinguishableOutcome ==
  /\ InstallOk => (mfile = "ok" /\ Recorded(Dir, last.component))
  /\ InstallFail => (mfile = Pre.mfile /\ manifest = Pre.manifest)
  /\ (last.op = "uninstall" /\ ~manifestReadable(Pre)) => (~last.ok /\ Dir = Pre)
  /\ (last.op = "uninstall" /\ last.component \in Components
        /\ manifestReadable(Pre) /\ ~Recorded(Pre, last.component)) => ~last.ok

(***************************************************************************)
(* C22  isVersionCached(fork, version) is true exactly when the version    *)
(* folder holds x64/dxgi.dll or x32/d3d9.dll, so it is false for a version *)
(* folder that does not exist and for an empty one; getCachedVersions      *)
(* returns the names of all sub-directories of the fork folder, empty ones *)
(* included, in listing order, and the empty list when the fork folder     *)
(* does not exist (or cannot be listed).                                   *)
(***************************************************************************)
C22_CachedVersions ==
  /\ last.op = "isVersionCached" =>
       LET held == UNION {cache.entries[i].files :
                            i \in {k \in 1..Len(cache.entries) :
                                     cache.entries[k].name = last.version}}
       IN /\ last.result <=> (<<"x64", "dxgi.dll">> \in held \/ <<"x32", "d3d9.dll">> \in held)
          /\ held = {} => ~last.result
  /\ last.op = "getCachedVersions" =>
       IF cache.exists /\ cache.readable
       THEN last.result = SelectSeq([i \in 1..Len(cache.entries) |-> cache.entries[i].name],
                                    LAMBDA n : n # "readme.txt")
       ELSE last.result = <<>>

\* the folder the tests build, with a file beside the versions: the empty
\* version is listed
C22_Witness ==
  /\ last.op = "getCachedVersions"
  /\ last.result = <<"2.7.1", "2.6.1">>
  /\ Len(cache.entries) = 3
  /\ \E i \in 1..3 : cache.entries[i].name = "2.6.1" /\ cache.entries[i].files = {}
  /\ \E i \in 1..3 : cache.entries[i].name = "2.7.1"
                       /\ cache.entries[i].files = {<<"x32", "d3d9.dll">>}

(***************************************************************************)
(* C23  Manifest membership.  A DeployedFile entry of the manifest as it   *)
(* was before an operation is missing from the manifest afterwards only if *)
(* the operation was an uninstall that returned true and that deleted the  *)
(* installed file or put the recorded backup back under its name; this     *)
(* includes an install of another release of the same family whose payload *)
(* lists other names.                                                      *)
(***************************************************************************)
C23_ManifestMembership ==
  \A e \in EntrySet(Pre, "all") :
    ~isTrackedName(readManifest(Dir), e.name) =>
       /\ UninstallOk
       /\ IF e.backupPath # NoPath /\ existsSync(Pre.files, e.backupPath)
          THEN files[e.name] = Pre.files[e.backupPath] /\ ~existsSync(files, e.backupPath)
          ELSE ~existsSync(files, e.name)

(***************************************************************************)
(* C24  The manifest does not lie after a failed install.  After an        *)
(* installEngine that threw, every DeployedFile entry of the manifest on   *)
(* disk whose file existed with the recorded hash before the call still    *)
(* exists with the recorded hash, whether the family was recorded before   *)
(* the call or not.                                                        *)
(***************************************************************************)
C24_ManifestNeverLies ==
  InstallFail =>
    \A e \in EntrySet(Dir, "all") :
      (existsSync(Pre.files, e.name) /\ hashFile(Pre.files, e.name) = e.hash) =>
         (existsSync(files, e.name) /\ hashFile(files, e.name) = e.hash)

(***************************************************************************)
(* C25  Manifest write ordering.  Within one call of installEngine the     *)
(* manifest file is written at most once, and only after every payload     *)
(* file has been copied and hashed; until then, and when the call throws   *)
(* before the write, the manifest on disk is what it was when the call     *)
(* began (absent if it was absent); a call that returns has written it     *)
(* once; and the payload files copied before a throw stay in the           *)
(* directory.                                                              *)
(***************************************************************************)
InCall == call.pc # "idle"

C25_ManifestWrittenLast ==
  InCall =>
    /\ call.writes <= 1
    /\ call.writes = 1 =>
         /\ Len(call.deployedDlls) = Len(call.sourceDlls)
         /\ \A k \in 1..Len(call.sourceDlls) :
               files[call.sourceDlls[k].name] = call.sourceDlls[k].bytes
    /\ call.writes = 0 =>
         (mfile = call.entry.mfile /\ manifest = call.entry.manifest)
    /\ (call.pc = "thrown" /\ call.failedAt # "write") => call.writes = 0
    /\ call.pc = "returned" =>
         /\ call.writes = 1
         /\ mfile = "ok"
         /\ \A k \in 1..Len(call.sourceDlls) :
               isTrackedName(manifest, call.sourceDlls[k].name)
    /\ call.pc = "thrown" =>
         \A k \in 1..Len(call.deployedDlls) :
           files[call.deployedDlls[k].name] = call.sourceDlls[k].bytes

\* an update of an installed family threw at the second copy: the first
\* file holds the new release, the manifest still the old one
C25_Witness ==
  /\ InCall /\ call.pc = "thrown" /\ call.failedAt = "copy"
  /\ call.version = "2.7.1"
  /\ Len(call.deployedDlls) = 1
  /\ files["d3d11.dll"] = "official-2.7.1-x64"
  /\ files["dxgi.dll"] = "official-2.7-x64"
  /\ mfile = "ok" /\ manifest.components["dxvk"].version = "2.7"

(***************************************************************************)
(* C26  Install merge frame.  A call of installEngine for family A in a    *)
(* directory where family B is recorded, whether it returns or throws,     *)
(* leaves B's DeployedFile entries (name, hash, backupPath), B's record in *)
(* components, B's installed files and B's backup files as they were; the  *)
(* entries it removes from the manifest are old entries of A.              *)
(***************************************************************************)
C26_InstallMergeFrame ==
  (last.op = "install" /\ Recorded(Pre, OtherComponent(last.component))) =>
    LET B == OtherComponent(last.component)
    IN /\ EntriesOf(Dir, B) = EntriesOf(Pre, B)
       /\ Recorded(Dir, B)
       /\ manifest.components[B] = Pre.manifest.components[B]
       /\ \A e \in EntrySet(Pre, B) :
             /\ files[e.name] = Pre.files[e.name]
             /\ files[backupPathOf(e.name)] = Pre.files[backupPathOf(e.name)]
       /\ \A e \in EntrySet(Pre, "all") \ EntrySet(Dir, "all") :
             isTargetDll(last.component, e.name)

\* an update of DXVK to another release beside a VKD3D that has a backup
C26_Witness ==
  /\ InstallOk /\ last.component = "dxvk"
  /\ Recorded(Pre, "dxvk") /\ Recorded(Pre, "vkd3d")
  /\ Pre.manifest.components["dxvk"].version # last.version
  /\ EntrySet(Pre, "dxvk") \ EntrySet(Dir, "dxvk") # {}
  /\ \E e \in EntrySet(Dir, "vkd3d") :
        e.backupPath # NoPath /\ files[e.backupPath] = ORIGINAL

C28_GeneratedConfigDeleted ==
  UninstallOk =>
    IF RemainingAfter(Pre, last.component) = {}
    THEN IF Pre.files[ConfName] = GENERATED
         THEN files[ConfName] = Absent
         ELSE files[ConfName] = Pre.files[ConfName]
    ELSE files[ConfName] = Pre.files[ConfName]

(***************************************************************************)
(* C29  Status after a scoped uninstall.  After an uninstall scoped to one *)
(* family that returned true and leaves the other family recorded, analyze *)
(* reports the uninstalled family inactive with no version and no fork,    *)
(* and the other family active if it was active before, in whatever order  *)
(* the two were installed.                                                 *)
(***************************************************************************)
StatusOf(a, c) ==
  IF c = "dxvk"
  THEN [status |-> a.dxvkStatus, version |-> a.dxvkVersion, fork |-> a.dxvkFork]
  ELSE [status |-> a.vkd3dStatus, version |-> a.vkd3dVersion, fork |-> a.vkd3dFork]

C29_StatusAfterScopedUninstall ==
  (UninstallOk /\ last.component \in Components
     /\ Recorded(Pre, last.component)
     /\ Recorded(Dir, OtherComponent(last.component))) =>
    /\ StatusOf(analyze(Dir), last.component) =
         [status |-> "inactive", version |-> "<undefined>", fork |-> "<undefined>"]
    /\ StatusOf(analyze(Pre), OtherComponent(last.component)).status = "active" =>
         StatusOf(analyze(Dir), OtherComponent(last.component)).status = "active"

(***************************************************************************)
(* C30  Uninstall of a family that is not there.  An uninstall scoped to a *)
(* family that has no record in components and no DeployedFile entry,      *)
(* on a directory with a readable manifest, deletes and renames no file    *)
(* and keeps the manifest file with every entry of the other family, for a *)
(* manifest with a components map and for a legacy manifest without one.   *)
(***************************************************************************)
C30_AbsentFamilyUninstall ==
  (last.op = "uninstall" /\ last.component \in Components
     /\ manifestReadable(Pre)
     /\ ~Recorded(Pre, last.component)
     /\ EntriesOf(Pre, last.component) = <<>>) =>
    /\ files = Pre.files
    /\ mfile = "ok"
    /\ manifest.dlls = Pre.manifest.dlls

(***************************************************************************)
(* C31  Whatever the cached payload lists, every entry an Install of a     *)
(* family records is selected by the filter Uninstall and Check apply for  *)
(* that family, and no manifest holds two entries of the same name: a      *)
(* re-install of a family does not accumulate duplicates.                  *)
(***************************************************************************)
NoDuplicateNames(dlls) ==
  \A i, j \in 1..Len(dlls) : i # j => dlls[i].name # dlls[j].name

RecordedByInstall(fork) ==
  {e \in EntrySet(Dir, "all") :
     \E k \in 1..Len(cachedEngineDlls(cache, fork, "64")) :
        cachedEngineDlls(cache, fork, "64")[k].name = e.name}

C31_NameOwnership ==
  /\ InstallOk =>
       \A e \in RecordedByInstall(last.fork) :
          e \in EntrySet(Dir, last.component)
  /\ manifestReadable(Dir) => NoDuplicateNames(manifest.dlls)

(***************************************************************************)
(* C32  After every successful Install, whether or not a manifest existed  *)
(* before, the manifest on disk records the version of the call for the    *)
(* installed family in the per-family map, and the architecture of the     *)
(* call.                                                                   *)
(***************************************************************************)
C32_VersionAndArchitecture ==
  InstallOk =>
    /\ manifestReadable(Dir)
    /\ Recorded(Dir, last.component)
    /\ manifest.components[last.component].version = last.version
    /\ manifest.architecture = last.architecture

(***************************************************************************)
(* C33  Run to completion.  Of two requests for the same game directory,   *)
(* at most one handler is between its first and its last filesystem step   *)
(* at any time, no handler has left the stack in between, and when both    *)
(* handlers have returned, the directory and the two returned values are   *)
(* those of handling the requests one after the other, in one of the two   *)
(* orders.                                                                 *)
(***************************************************************************)
MidCall(h) == h.pc \notin {"enter", "return", "done"}

BothReturned == \A id \in HandlerIds : loop.handlers[id].pc = "done"

Outcome ==
  [dir |-> Dir, first |-> loop.handlers[1].result,
   second |-> loop.handlers[2].result]

Swapped(o) == [dir |-> o.dir, first |-> o.second, second |-> o.first]

C33_RunToCompletion ==
  /\ ~(MidCall(loop.handlers[1]) /\ MidCall(loop.handlers[2]))
  /\ \A id \in HandlerIds :
        MidCall(loop.handlers[id]) => loop.running = id
  /\ BothReturned =>
       \/ Outcome = inOrder(loop.entry, loop.handlers[1].req, loop.handlers[2].req)
       \/ Outcome = Swapped(inOrder(loop.entry, loop.handlers[2].req,
                                    loop.handlers[1].req))

C33_Witness ==
  /\ BothReturned
  /\ loop.handlers[1].req.kind = "install"
  /\ loop.handlers[2].req.kind = "uninstall"
  /\ loop.handlers[2].result = [success |-> TRUE]
  /\ Dir # loop.entry
  /\ inOrder(loop.entry, loop.handlers[1].req, loop.handlers[2].req).dir
       # inOrder(loop.entry, loop.handlers[2].req, loop.handlers[1].req).dir

(***************************************************************************)
(* C34  The queries are read-only.  After readManifest, isDxvkInstalled,   *)
(* getInstalledVersion, checkIntegrity and detectManualInstallation, on a  *)
(* directory whose manifest is absent, unparseable or readable and whose   *)
(* tracked files are intact, missing or altered, every file of the         *)
(* directory, the manifest and dxvk.conf included, is as it was, every fs  *)
(* call made was a read, and the finding is the returned value.            *)
(***************************************************************************)
QueryOps ==
  {"readManifest", "isDxvkInstalled", "getInstalledVersion", "checkIntegrity",
   "detectManualInstallation"}

C34_QueriesReadOnly ==
  last.op \in QueryOps =>
    /\ Dir = Pre
    /\ \A k \in 1..Len(last.calls) : last.calls[k].fn \in ReadingCalls
    /\ last.op = "checkIntegrity" =>
         /\ last.result \in {"ok", "missing", "corrupt", "not_installed"}
         /\ last.result = checkIntegrity(Dir, last.component)
         /\ ~manifestReadable(Pre) => last.result = "not_installed"
    /\ last.op = "detectManualInstallation" =>
         last.result.detected \in BOOLEAN

C34_Witness ==
  /\ last.op = "checkIntegrity"
  /\ last.result = "corrupt"
  /\ Len(last.calls) > 4
  /\ existsSync(files, ConfName)
  /\ \E n \in DllNames : files[n] = TAMPERED

(***************************************************************************)
(* C35  Legacy migration.  A successful Install of VKD3D into a directory  *)
(* whose manifest has no components map writes a manifest in which         *)
(* components.dxvk is the legacy engineVersion and engineFork,             *)
(* components.vkd3d is the new install, and the legacy entries are the     *)
(* same list; an Uninstall of VKD3D from there returns true and leaves     *)
(* DXVK recorded, with the same entries and checkIntegrity for DXVK ok.    *)
(***************************************************************************)
LegacyManifest(d) == manifestReadable(d) /\ ~d.manifest.hasComponents

C35_LegacyMigration ==
  (InstallOk /\ last.component = "vkd3d" /\ LegacyManifest(Pre)) =>
    /\ manifestReadable(Dir) /\ manifest.hasComponents
    /\ DOMAIN manifest.components = {"dxvk", "vkd3d"}
    /\ manifest.components["dxvk"] =
         [version |-> Pre.manifest.engineVersion, fork |-> Pre.manifest.engineFork]
    /\ manifest.components["vkd3d"] = [version |-> last.version, fork |-> last.fork]
    /\ EntriesOf(Dir, "dxvk") = Pre.manifest.dlls
    /\ LET u == uninstallEngine(Dir, "vkd3d")
       IN /\ u.result
          /\ Recorded(u.dir, "dxvk")
          /\ ~Recorded(u.dir, "vkd3d")
          /\ EntriesOf(u.dir, "all") = Pre.manifest.dlls
          /\ checkIntegrity(u.dir, "dxvk") = "ok"
          /\ \A k \in 1..Len(Pre.manifest.dlls) :
                u.dir.files[Pre.manifest.dlls[k].name] =
                  Pre.files[Pre.manifest.dlls[k].name]

C35_Witness ==
  /\ InstallOk /\ last.component = "vkd3d" /\ LegacyManifest(Pre)
  /\ Len(Pre.manifest.dlls) = 2
  /\ Pre.manifest.dlls[1].backupPath # NoPath
  /\ files["d3d12.dll.bak_dxvk_studio"] = ORIGINAL
  /\ Pre.manifest.configPath = ConfName

====
